---- MODULE Spec2Model ----
(***************************************************************************)
(* Real-time session relay of the interview application.                   *)
(*                                                                         *)
(* Three handler variants are modelled:                                    *)
(*   "fixed"   FixedGeminiLiveHandler   (pure_gemini_handler.py)           *)
(*   "working" WorkingGeminiLiveHandler (pure_websocket_server.py)         *)
(*   "api"     GeminiLiveHandler        (api/websocket.py)                 *)
(*                                                                         *)
(* Each asyncio task is a process with a program counter.  A task runs     *)
(* atomically from one suspension point (an await on the network, a        *)
(* sleep, a queue wait, a worker thread) to the next.  A network send     *)
(* takes effect when it is called and suspends the caller afterwards.      *)
(* Time is a discrete clock; one unit is 50 ms.                            *)
(***************************************************************************)
EXTENDS Integers, Sequences, FiniteSets, TLC

VARIABLES
    variant,               \* which handler class serves the connection
    faultKinds,            \* kinds of collaborator failure the environment may inject
    envBudget,             \* environment events (messages, failures, clock jumps) still allowed
    wsRaised,              \* some websocket send has raised so far
    wsOpen,                \* the client connection is open
    now,                   \* clock
    interview,             \* self.interview (status "none": not created yet)
    is_session_active,     \* self.is_session_active
    last_activity,         \* self.last_activity
    last_audio_time,       \* self.last_audio_time
    pending_audio_chunks,  \* self.pending_audio_chunks
    audio_buffer,          \* self.audio_buffer (asyncio.Queue)
    transcript_counter,    \* self.transcript_counter
    transcripts_db,        \* stored utterances of this session, in insertion order
    wsOut,                 \* messages delivered to the client, in order
    upSent,                \* what was handed to the upstream session, in order
    pc,                    \* suspension point of every task
    endLocal,              \* locals of end_interview, per calling task
    endRuns,               \* how many times the termination sequence was entered
    endCalls,              \* the tasks that have invoked end_interview
    stored,                \* api variant: the session row in the database
    current_stream_id,     \* audio_streamer local
    nextStreamId,          \* uuid4 source: next fresh identifier
    audio_item,            \* audio_streamer local: the dequeued item
    resp,                  \* upstream receive loop: response being processed
    partIdx,               \* upstream receive loop: index of the part being processed
    clientMsg,             \* client reader: message being processed
    saveLocal,             \* api variant: sequence number read by a suspended save
    hist,                  \* history of the inbound batcher: frames accepted, payloads handed on
    peer                   \* a second handler on another connection, sharing the two stores

vars == <<variant, faultKinds, envBudget, wsRaised, wsOpen, now,
          interview, is_session_active, last_activity, last_audio_time,
          pending_audio_chunks, audio_buffer, transcript_counter, transcripts_db,
          wsOut, upSent, pc, endLocal, endRuns, endCalls, stored, current_stream_id, nextStreamId,
          audio_item, resp, partIdx, clientMsg, saveLocal, hist, peer>>

-----------------------------------------------------------------------------
(* Bounds of the model *)

\* environment events (client messages, upstream events, injected failures,
\* clock jumps) in a life-cycle scenario
LifeEvents == 4

\* environment events in a termination-trigger scenario
TriggerEvents == 3

\* environment events in a streaming scenario
StreamEvents == 3

\* environment events in a batching scenario
BatchEvents == 4

\* environment events in a transcript scenario
TranscriptEvents == 4

\* environment events in a client-input scenario
InputEvents == 4

\* environment events in an inactivity scenario
IdleEvents == 4

\* upstream events in a turn-taking scenario
TurnEvents == 4

-----------------------------------------------------------------------------
(* Values *)

NoTime == -1
Nil == "<nil>"

Tasks == {"main", "client", "gemini", "monitor", "sender", "streamer"}
Workers == Tasks \ {"main"}
EndCallers == {"main", "client", "gemini", "monitor"}

\* str.strip() on the texts the model uses
Strip(t) ==
    CASE t = " " -> ""
      [] t = " hi " -> "hi"
      [] OTHER -> t

Texts == {"", " ", "hi", " hi ", "yo"}

Msg(type, sid, body) == [type |-> type, stream_id |-> sid, body |-> body]

IdleEnd == [pc |-> "idle", summary |-> Nil, total |-> 0]

\* SimpleInterview.id = str(uuid.uuid4()) of this session and of the second one
OwnId == "interview-1"
PeerId == "interview-2"

\* no frame accepted yet, no payload handed to the upstream send yet
NoHist == [accepted |-> <<>>, handed |-> <<>>, frameAt |-> -1]

NoResp == [sc |-> FALSE, it |-> Nil, interrupted |-> FALSE, parts |-> <<>>, tc |-> FALSE]
NoClientMsg == [type |-> Nil, audio |-> <<>>, text |-> Nil]

\* What a call to a collaborator may do: succeed (TRUE) or raise (FALSE).  A send
\* on a closed websocket always raises; otherwise the environment may inject a
\* failure of an allowed kind while its budget lasts.
\* spent: what the step has already taken from the budget (1 when the step
\* is the arrival of a message, else 0).
OutcomeAfter(kind, spent) ==
    IF kind = "ws" /\ ~wsOpen THEN {FALSE}
    ELSE IF envBudget - spent > 0 /\ kind \in faultKinds THEN BOOLEAN ELSE {TRUE}

Outcome(kind) == OutcomeAfter(kind, 0)

Cost(kind, ok) == IF ok \/ (kind = "ws" /\ ~wsOpen) THEN 0 ELSE 1
Spend1(k, ok) == envBudget - Cost(k, ok)
Spend2(k1, ok1, k2, ok2) == envBudget - Cost(k1, ok1) - Cost(k2, ok2)

-----------------------------------------------------------------------------
(* Program constants, in clock units of 50 ms *)

conversation_inactive_threshold ==
    CASE variant = "fixed" -> 600
      [] variant = "working" -> 1200
      [] OTHER -> 200

silence_threshold == IF variant = "fixed" THEN 20 ELSE 30

audio_chunk_timeout == IF variant = "fixed" THEN 2 ELSE 4

\* a length that counts one byte too many
ByteLenPlusOne(b) == Len(b) + 1

\* len() of a byte string
ByteLen(b) == Len(b)

\* an inbound frame is accepted when it is longer than this
min_audio_len == IF variant = "fixed" THEN 0 ELSE 32

-----------------------------------------------------------------------------
(* Transcript Recorder (fixed and working variants) *)

\* a recorder that uses up a sequence number for a blank text as well
SaveCountingBlank(st, speaker, text) ==
    IF interview.status # "none" /\ Strip(text) # ""
    THEN [db  |-> Append(st.db, [interview_id |-> OwnId, speaker |-> speaker,
                                 text |-> Strip(text), sequence_number |-> st.ctr]),
          ctr |-> st.ctr + 1]
    ELSE [st EXCEPT !.ctr = st.ctr + 1]

\* save_live_transcript: st = [db, ctr]; a blank text records nothing
save_live_transcript(st, speaker, text) ==
    IF interview.status # "none" /\ Strip(text) # ""
    THEN [db  |-> Append(st.db, [interview_id |-> OwnId, speaker |-> speaker,
                                 text |-> Strip(text), sequence_number |-> st.ctr]),
          ctr |-> st.ctr + 1]
    ELSE st

Upper(speaker) == IF speaker = "user" THEN "USER" ELSE "AI"

\* a selection that takes every utterance of the shared store
RowsOfAnyone(db, id) == db

\* [t for t in self.transcripts_db.values() if t.interview_id == self.interview.id]
RowsOf(db, id) == SelectSeq(db, LAMBDA t : t.interview_id = id)

RECURSIVE InsertBySeq(_, _)
InsertBySeq(sorted, t) ==
    IF sorted = <<>> THEN <<t>>
    ELSE IF sorted[Len(sorted)].sequence_number <= t.sequence_number
         THEN Append(sorted, t)
         ELSE Append(InsertBySeq(SubSeq(sorted, 1, Len(sorted) - 1), t),
                     sorted[Len(sorted)])

\* list.sort(key=sequence_number): stable
RECURSIVE SortBySeq(_)
SortBySeq(db) ==
    IF db = <<>> THEN <<>>
    ELSE InsertBySeq(SortBySeq(SubSeq(db, 1, Len(db) - 1)), db[Len(db)])

\* '\n'.join(f"{t.speaker.upper()}: {t.text}"): one line per utterance
FullTranscript(db) ==
    [i \in 1..Len(db) |-> <<Upper(SortBySeq(db)[i].speaker), SortBySeq(db)[i].text>>]

\* duration_seconds = int((ended_at - started_at).total_seconds())
DurationSeconds(started, ended) == (ended - started) \div 20

-----------------------------------------------------------------------------
(* end_interview (fixed and working variants)                               *)

\* a guard that tests only that the session record exists
EndGuardNoStatus == interview.status # "none"

\* the guard of end_interview
EndGuard == interview.status = "active"

\* a summary step that hands back nothing when the collaborator raises
SummaryOrNothing(transcript, ok) ==
    IF transcript = <<>> THEN "SUMMARY_EMPTY"
    ELSE IF ok THEN "SUMMARY_OK" ELSE Nil

\* generate_summary: a fixed text for a blank transcript, the collaborator's
\* text, or a placeholder when the collaborator raises (ok = FALSE)
generate_summary(transcript, ok) ==
    IF transcript = <<>> THEN "SUMMARY_EMPTY"
    ELSE IF ok THEN "SUMMARY_OK" ELSE "SUMMARY_FAILED"

\* from the moment the summary is known up to the suspension in the
\* upstream stream-end send
EndAfterSummary(c, iv, summ, total, upOk) ==
    /\ interview' = [iv EXCEPT !.summary = summ]
    /\ upSent' = IF upOk THEN Append(upSent, [kind |-> "end", data |-> <<>>]) ELSE upSent
    /\ endLocal' = [endLocal EXCEPT ![c] =
                       [pc |-> "after_streamend", summary |-> summ, total |-> total]]

\* Call of end_interview by task c.  Sets interview', upSent', endLocal', endRuns',
\* endCalls', envBudget' and the caller's pc; wsOut is untouched by the first segment.
EndCall(c, pcNow, spent) ==
    IF EndGuard
    THEN LET ended == now
             iv == [interview EXCEPT !.status = "completed",
                                     !.ended_at = ended,
                                     !.duration_seconds =
                                         DurationSeconds(interview.started_at, ended),
                                     !.full_transcript =
                                         FullTranscript(RowsOf(transcripts_db, OwnId))]
             total == Len(RowsOf(transcripts_db, OwnId))
         IN /\ endRuns' = endRuns + 1
            /\ endCalls' = endCalls \cup {c}
            /\ IF iv.full_transcript = <<>>
               THEN \* generate_summary returns at once on a blank transcript
                    \E upOk \in OutcomeAfter("up", spent) :
                        /\ EndAfterSummary(c, iv, generate_summary(iv.full_transcript, TRUE),
                                           total, upOk)
                        /\ envBudget' = Spend1("up", upOk) - spent
                        /\ pc' = [pcNow EXCEPT ![c] = "end_interview"]
               ELSE \* suspended in asyncio.to_thread(model.generate_content)
                    /\ interview' = iv
                    /\ endLocal' = [endLocal EXCEPT ![c] =
                                       [pc |-> "summary", summary |-> Nil, total |-> total]]
                    /\ pc' = [pcNow EXCEPT ![c] = "end_interview"]
                    /\ envBudget' = envBudget - spent
                    /\ UNCHANGED upSent
    ELSE /\ pc' = [pcNow EXCEPT ![c] = "done"]
         /\ endCalls' = endCalls \cup {c}
         /\ envBudget' = envBudget - spent
         /\ UNCHANGED <<interview, upSent, endLocal, endRuns>>

EndedMsg(c) ==
    Msg("interview_ended", 0,
        [error |-> FALSE, duration |-> interview.duration_seconds,
         summary |-> endLocal[c].summary, total_transcripts |-> endLocal[c].total])

EndedErrMsg ==
    Msg("interview_ended", 0,
        [error |-> TRUE, duration |-> 0, summary |-> "ENDED_WITH_ERRORS",
         total_transcripts |-> 0])

\* the summary collaborator answers (or raises: placeholder)
EndSummary(c) ==
    /\ variant \in {"fixed", "working"}
    /\ pc[c] = "end_interview" /\ endLocal[c].pc = "summary"
    /\ \E sumOk \in Outcome("summary"), upOk \in Outcome("up") :
          /\ Spend2("summary", sumOk, "up", upOk) >= 0
          /\ EndAfterSummary(c, interview,
                             generate_summary(interview.full_transcript, sumOk),
                             endLocal[c].total, upOk)
          /\ envBudget' = Spend2("summary", sumOk, "up", upOk)
    /\ UNCHANGED <<variant, peer, hist, faultKinds, wsOpen, stored, wsRaised, now,
                   is_session_active, last_activity, last_audio_time,
                   pending_audio_chunks, audio_buffer, transcript_counter,
                   transcripts_db, wsOut, pc, endRuns, endCalls, current_stream_id,
                   nextStreamId, audio_item, resp, partIdx, clientMsg, saveLocal>>

\* the stream-end send returned: notify the client; on failure force status
\* failed and (fixed variant only) send the best-effort terminal message
EndNotify(c) ==
    /\ variant \in {"fixed", "working"}
    /\ pc[c] = "end_interview" /\ endLocal[c].pc = "after_streamend"
    /\ \E ok \in Outcome("ws"), ok2 \in Outcome("ws") :
          /\ Spend2("ws", ok, "ws", ok2) >= 0
          /\ ok => ok2
          /\ IF ok
             THEN /\ wsOut' = Append(wsOut, EndedMsg(c))
                  /\ endLocal' = [endLocal EXCEPT ![c].pc = "after_notify"]
                  /\ UNCHANGED <<interview, pc, wsRaised>>
             ELSE /\ interview' = [interview EXCEPT !.status = "failed"]
                  /\ wsRaised' = TRUE
                  /\ IF variant = "fixed" /\ ok2
                     THEN /\ wsOut' = Append(wsOut, EndedErrMsg)
                          /\ endLocal' = [endLocal EXCEPT ![c].pc = "after_notify"]
                          /\ pc' = pc
                     ELSE /\ wsOut' = wsOut
                          /\ endLocal' = [endLocal EXCEPT ![c] = IdleEnd]
                          /\ pc' = [pc EXCEPT ![c] = "done"]
          /\ envBudget' = IF variant = "fixed" THEN Spend2("ws", ok, "ws", ok2)
                                                  ELSE Spend1("ws", ok)
    /\ UNCHANGED <<variant, peer, hist, faultKinds, wsOpen, stored, now,
                   is_session_active, last_activity, last_audio_time,
                   pending_audio_chunks, audio_buffer, transcript_counter,
                   transcripts_db, upSent, endRuns, endCalls, current_stream_id,
                   nextStreamId, audio_item, resp, partIdx, clientMsg, saveLocal>>

\* the terminal send returned: end_interview returns and its caller finishes
EndReturn(c) ==
    /\ variant \in {"fixed", "working"}
    /\ pc[c] = "end_interview" /\ endLocal[c].pc = "after_notify"
    /\ endLocal' = [endLocal EXCEPT ![c] = IdleEnd]
    /\ pc' = [pc EXCEPT ![c] = "done"]
    /\ UNCHANGED <<variant, peer, hist, faultKinds, wsOpen, stored, envBudget, wsRaised, now, interview, is_session_active, last_activity, last_audio_time,
                   pending_audio_chunks, audio_buffer, transcript_counter,
                   transcripts_db, wsOut, upSent, endRuns, endCalls, current_stream_id,
                   nextStreamId, audio_item, resp, partIdx, clientMsg, saveLocal>>

-----------------------------------------------------------------------------
(* start_interview (fixed and working variants)                             *)

\* the tasks start_interview creates
TaskSet == IF variant = "api" THEN {"gemini", "client", "monitor"} ELSE Workers

StartPc(t) ==
    CASE t = "client" -> "recv"
      [] t = "gemini" -> "recv"
      [] t = "monitor" -> "sleep"
      [] t = "sender" -> "sleep"
      [] t = "streamer" -> "wait"
      [] OTHER -> "gather"

NewInterview ==
    [status |-> "active", started_at |-> now, ended_at |-> NoTime,
     duration_seconds |-> 0, full_transcript |-> <<>>, summary |-> ""]

\* create the session record and announce it
start_interview ==
    /\ pc["main"] = "init"
    /\ \E ok \in Outcome("ws"), created \in Outcome("storage") :
          /\ (variant # "api") => created
          /\ Spend2("ws", ok, "storage", created) >= 0
          /\ created \/ ok
          /\ interview' = IF created THEN NewInterview ELSE interview
          /\ stored' = IF created /\ variant = "api"
                       THEN [status |-> "active", saves |-> 0] ELSE stored
          /\ wsOut' = IF created /\ ok THEN Append(wsOut, Msg("interview_started", 0, Nil))
                      ELSE wsOut
          /\ wsRaised' = (wsRaised \/ (created /\ ~ok))
          /\ pc' = [pc EXCEPT !["main"] = IF created /\ ok THEN "connecting" ELSE "raised"]
          /\ envBudget' = Spend2("ws", ok, "storage", created)
    /\ UNCHANGED <<variant, peer, hist, faultKinds, wsOpen, now,
                   is_session_active, last_activity, last_audio_time,
                   pending_audio_chunks, audio_buffer, transcript_counter,
                   transcripts_db, upSent, endLocal, endRuns, endCalls, current_stream_id,
                   nextStreamId, audio_item, resp, partIdx, clientMsg, saveLocal>>

\* client.aio.live.connect: on success the tasks are created and gathered;
\* on failure the exception leaves start_interview
connect ==
    /\ pc["main"] = "connecting"
    /\ \E ok \in Outcome("connect"), greetOk \in Outcome("up") :
          /\ Spend2("connect", ok, "up", greetOk) >= 0
          /\ ok \/ greetOk
          /\ (variant # "working") => greetOk
          /\ envBudget' = Spend2("connect", ok, "up", greetOk)
          /\ IF ok
             THEN /\ last_activity' = now
                  /\ is_session_active' = TRUE
                  /\ upSent' = IF variant = "working" /\ greetOk
                               THEN Append(upSent, [kind |-> "text", data |-> "greeting"])
                               ELSE upSent
                  /\ pc' = IF greetOk
                           THEN [t \in Tasks |->
                                   IF t \in TaskSet \cup {"main"} THEN StartPc(t) ELSE pc[t]]
                           ELSE [pc EXCEPT !["main"] = "raised"]
             ELSE /\ pc' = [pc EXCEPT !["main"] = "raised"]
                  /\ UNCHANGED <<last_activity, is_session_active, upSent>>
    /\ UNCHANGED <<variant, peer, hist, faultKinds, wsOpen, stored, wsRaised, now,
                   interview, last_audio_time, pending_audio_chunks, audio_buffer,
                   transcript_counter, transcripts_db, wsOut, endLocal, endRuns, endCalls,
                   current_stream_id, nextStreamId, audio_item, resp, partIdx, clientMsg, saveLocal>>

\* asyncio.gather returned (every task finished): the finally block
gather_finally ==
    /\ pc["main"] = "gather"
    /\ variant \in {"fixed", "working"}
    /\ \A t \in TaskSet : pc[t] = "done"
    /\ is_session_active' = FALSE
    /\ EndCall("main", pc, 0)
    /\ UNCHANGED <<variant, peer, hist, faultKinds, wsOpen, stored, wsRaised, now,
                   last_activity, last_audio_time, pending_audio_chunks, audio_buffer,
                   transcript_counter, transcripts_db, wsOut, current_stream_id,
                   nextStreamId, audio_item, resp, partIdx, clientMsg, saveLocal>>

\* handle_websocket / websocket_endpoint: an exception that leaves
\* start_interview is logged and the connection is closed
handle_websocket ==
    /\ variant \in {"working", "api"}
    /\ pc["main"] = "raised"
    /\ pc' = [pc EXCEPT !["main"] = "closed"]
    /\ wsOpen' = FALSE
    /\ UNCHANGED <<variant, peer, hist, faultKinds, stored, envBudget, wsRaised, now, interview,
                   is_session_active, last_activity, last_audio_time,
                   pending_audio_chunks, audio_buffer, transcript_counter,
                   transcripts_db, wsOut, upSent, endLocal, endRuns, endCalls,
                   current_stream_id, nextStreamId, audio_item, resp, partIdx, clientMsg,
                   saveLocal>>

-----------------------------------------------------------------------------
(* handle_client_messages (fixed and working variants)                      *)

ClientMsg(type, audio, text) == [type |-> type, audio |-> audio, text |-> text]

\* the reader leaves its loop; the working variant's finally clears the flag
ClientExit(flag) == IF variant = "working" THEN FALSE ELSE flag

\* the reader keeps the frame of message m for batching
Accepts(m) ==
    /\ is_session_active
    /\ m.type = "audio_chunk"
    /\ ByteLen(m.audio) > min_audio_len

\* one message arrives on the websocket and is handled up to the next await
handle_client_messages(m) ==
    /\ pc["client"] = "recv"
    /\ variant \in {"fixed", "working"}
    /\ envBudget > 0
    /\ IF ~is_session_active
       THEN \* break
            /\ pc' = [pc EXCEPT !["client"] = "done"]
            /\ is_session_active' = ClientExit(is_session_active)
            /\ envBudget' = envBudget - 1
            /\ UNCHANGED <<interview, upSent, endLocal, endRuns, endCalls,
                           pending_audio_chunks, last_audio_time, last_activity, clientMsg>>
       ELSE CASE m.type = "bad_json" ->
                 \* json.loads raises: fixed leaves the loop, working continues
                 /\ pc' = [pc EXCEPT !["client"] =
                              IF variant = "fixed" THEN "done" ELSE "recv"]
                 /\ is_session_active' = (variant # "fixed")
                 /\ envBudget' = envBudget - 1
                 /\ UNCHANGED <<interview, upSent, endLocal, endRuns, endCalls,
                                pending_audio_chunks, last_audio_time, last_activity,
                                clientMsg>>
              [] m.type = Nil ->
                 \* data['type'] raises KeyError
                 /\ pc' = [pc EXCEPT !["client"] = "done"]
                 /\ is_session_active' = FALSE
                 /\ envBudget' = envBudget - 1
                 /\ UNCHANGED <<interview, upSent, endLocal, endRuns, endCalls,
                                pending_audio_chunks, last_audio_time, last_activity,
                                clientMsg>>
              [] m.type = "audio_chunk" ->
                 /\ IF Accepts(m)
                    THEN /\ pending_audio_chunks' = Append(pending_audio_chunks, m.audio)
                         /\ last_audio_time' = now
                         /\ last_activity' = now
                    ELSE UNCHANGED <<pending_audio_chunks, last_audio_time, last_activity>>
                 /\ envBudget' = envBudget - 1
                 /\ UNCHANGED <<pc, is_session_active, interview, upSent, endLocal,
                                endRuns, endCalls, clientMsg>>
              [] m.type = "stop_interview" ->
                 /\ is_session_active' = FALSE
                 /\ IF variant = "fixed"
                    THEN EndCall("client", pc, 1)
                    ELSE /\ pc' = [pc EXCEPT !["client"] = "done"]
                         /\ envBudget' = envBudget - 1
                         /\ UNCHANGED <<interview, upSent, endLocal, endRuns, endCalls>>
                 /\ UNCHANGED <<pending_audio_chunks, last_audio_time, last_activity,
                                clientMsg>>
              [] m.type = "text_input" /\ variant = "fixed" ->
                 \E ok \in OutcomeAfter("up", 1) :
                    /\ envBudget' = Spend1("up", ok) - 1
                    /\ upSent' = IF ok THEN Append(upSent, [kind |-> "text", data |-> m.text])
                                 ELSE upSent
                    /\ pc' = [pc EXCEPT !["client"] = IF ok THEN "after_text" ELSE "done"]
                    /\ is_session_active' = ok
                    /\ clientMsg' = IF ok THEN m ELSE clientMsg
                    /\ UNCHANGED <<interview, endLocal, endRuns, endCalls, pending_audio_chunks,
                                   last_audio_time, last_activity>>
              [] OTHER ->
                 /\ envBudget' = envBudget - 1
                 /\ UNCHANGED <<pc, is_session_active, interview, upSent, endLocal, endRuns,
                                endCalls, pending_audio_chunks, last_audio_time,
                                last_activity, clientMsg>>
    /\ hist' = IF Accepts(m)
               THEN [hist EXCEPT !.accepted = Append(@, m.audio), !.frameAt = Len(upSent)]
               ELSE hist
    /\ UNCHANGED <<variant, peer, faultKinds, wsOpen, stored, wsRaised, now, audio_buffer,
                   transcript_counter, transcripts_db, wsOut, current_stream_id,
                   nextStreamId, audio_item, resp, partIdx, saveLocal>>

\* the upstream text send returned: record the utterance
client_after_text ==
    /\ variant = "fixed"
    /\ pc["client"] = "after_text"
    /\ LET st == save_live_transcript([db |-> transcripts_db, ctr |-> transcript_counter],
                                      "user", clientMsg.text)
       IN /\ transcripts_db' = st.db
          /\ transcript_counter' = st.ctr
    /\ last_activity' = now
    /\ clientMsg' = NoClientMsg
    /\ pc' = [pc EXCEPT !["client"] = "recv"]
    /\ UNCHANGED <<variant, peer, hist, faultKinds, wsOpen, stored, envBudget, wsRaised, now, interview, is_session_active, last_audio_time,
                   pending_audio_chunks, audio_buffer, wsOut, upSent, endLocal, endRuns, endCalls,
                   current_stream_id, nextStreamId, audio_item, resp, partIdx, saveLocal>>


\* the client closes the connection while the reader waits for a message:
\* the iteration ends (cleanly, or with ConnectionClosed raised)
client_disconnect ==
    /\ pc["client"] = "recv"
    /\ variant \in {"fixed", "working"}
    /\ wsOpen
    /\ wsOpen' = FALSE
    /\ pc' = [pc EXCEPT !["client"] = "done"]
    /\ \E clean \in BOOLEAN :
          is_session_active' = ClientExit(IF clean THEN is_session_active ELSE FALSE)
    /\ UNCHANGED <<variant, peer, hist, faultKinds, stored, envBudget, wsRaised, now, interview, last_activity, last_audio_time, pending_audio_chunks,
                   audio_buffer, transcript_counter, transcripts_db, wsOut, upSent,
                   endLocal, endRuns, endCalls, current_stream_id, nextStreamId, audio_item, resp, partIdx,
                   clientMsg, saveLocal>>

-----------------------------------------------------------------------------
(* handle_gemini_responses (fixed and working variants)                     *)

Part(text, data) == [text |-> text, data |-> data]
Resp(sc, it, interrupted, parts, tc) ==
    [sc |-> sc, it |-> it, interrupted |-> interrupted, parts |-> parts, tc |-> tc]

Fragment(d) == [end_turn |-> FALSE, data |-> d]
EndTurn == [end_turn |-> TRUE, data |-> 0]

\* a queue that hands out the newest item first
PutFirst(buf, item) == <<item>> \o buf

\* await self.audio_buffer.put(item): asyncio.Queue is first in, first out
Put(buf, item) == Append(buf, item)

\* a text test that lets a missing text through
TextPassesMissing(t) ==
    /\ t # ""
    /\ (variant = "working") => Strip(t) # ""

\* the text tests: fixed tests truthiness, working also tests strip()
TextPasses(t) ==
    /\ t # Nil /\ t # ""
    /\ (variant = "working") => Strip(t) # ""

\* the text of the live_transcript message
SentText(speaker, t) == IF variant = "working" /\ speaker = "ai" THEN Strip(t) ELSE t

\* Processing of response r from (stage, i) on, up to the next websocket send
\* or the end of the response.  st = [db, ctr, buf]; the result adds
\* sends (a message is to be sent), send (the message), and where to resume.
RECURSIVE GemAdvance(_, _, _, _)
GemAdvance(r, stage, i, st) ==
    CASE stage = "it" ->
           IF TextPasses(r.it)
           THEN LET sv == save_live_transcript([db |-> st.db, ctr |-> st.ctr], "user", r.it)
                IN [db |-> sv.db, ctr |-> sv.ctr, buf |-> st.buf, sends |-> TRUE,
                    send |-> Msg("live_transcript", 0,
                                 [speaker |-> "user", text |-> SentText("user", r.it)]),
                    stage |-> "intr", i |-> 1]
           ELSE GemAdvance(r, "intr", 1, st)
      [] stage = "intr" ->
           \* on interruption the queue is drained
           GemAdvance(r, "text", 1,
                      [st EXCEPT !.buf = IF r.interrupted THEN <<>> ELSE st.buf])
      [] stage = "text" ->
           IF i > Len(r.parts) THEN GemAdvance(r, "tc", i, st)
           ELSE IF TextPasses(r.parts[i].text)
           THEN LET sv == save_live_transcript([db |-> st.db, ctr |-> st.ctr], "ai",
                                               SentText("ai", r.parts[i].text))
                IN [db |-> sv.db, ctr |-> sv.ctr, buf |-> st.buf, sends |-> TRUE,
                    send |-> Msg("live_transcript", 0,
                                 [speaker |-> "ai",
                                  text |-> SentText("ai", r.parts[i].text)]),
                    stage |-> "audio", i |-> i]
           ELSE GemAdvance(r, "audio", i, st)
      [] stage = "audio" ->
           GemAdvance(r, "text", i + 1,
                      [st EXCEPT !.buf = IF r.parts[i].data # 0
                                         THEN Put(st.buf, Fragment(r.parts[i].data))
                                         ELSE st.buf])
      [] OTHER ->
           \* turn complete, then the response is finished
           [db |-> st.db, ctr |-> st.ctr,
            buf |-> IF r.tc THEN Put(st.buf, EndTurn) ELSE st.buf,
            sends |-> FALSE, send |-> Msg(Nil, 0, Nil), stage |-> "end", i |-> i]

\* apply the result of GemAdvance for response r
GemApply(r, res, spent) ==
    /\ transcripts_db' = res.db
    /\ transcript_counter' = res.ctr
    /\ audio_buffer' = res.buf
    /\ IF ~res.sends
       THEN /\ last_activity' = now
            /\ pc' = [pc EXCEPT !["gemini"] = "recv"]
            /\ resp' = NoResp
            /\ partIdx' = 0
            /\ envBudget' = envBudget - spent
            /\ UNCHANGED <<wsOut, wsRaised>>
       ELSE \E ok \in OutcomeAfter("ws", spent) :
              /\ envBudget' = Spend1("ws", ok) - spent
              /\ wsRaised' = (wsRaised \/ ~ok)
              /\ wsOut' = IF ok THEN Append(wsOut, res.send) ELSE wsOut
              /\ pc' = [pc EXCEPT !["gemini"] =
                           IF ~ok THEN "done"
                           ELSE IF res.stage = "intr" THEN "after_it" ELSE "after_text"]
              /\ resp' = IF ok THEN r ELSE NoResp
              /\ partIdx' = IF ok THEN res.i ELSE 0
              /\ UNCHANGED last_activity

\* the next upstream event arrives
handle_gemini_responses(r) ==
    /\ pc["gemini"] = "recv"
    /\ variant \in {"fixed", "working"}
    /\ envBudget > 0
    /\ IF ~is_session_active
       THEN /\ pc' = [pc EXCEPT !["gemini"] = "done"]
            /\ envBudget' = envBudget - 1
            /\ UNCHANGED <<transcripts_db, transcript_counter, audio_buffer, last_activity,
                           resp, partIdx, wsOut, wsRaised>>
       ELSE IF ~r.sc
       THEN /\ envBudget' = envBudget - 1
            /\ UNCHANGED <<pc, transcripts_db, transcript_counter, audio_buffer,
                           last_activity, resp, partIdx, wsOut, wsRaised>>
       ELSE GemApply(r, GemAdvance(r, "it", 1,
                        [db |-> transcripts_db, ctr |-> transcript_counter,
                         buf |-> audio_buffer]), 1)
    /\ UNCHANGED <<variant, peer, hist, faultKinds, wsOpen, stored, now, interview,
                   is_session_active, last_audio_time, pending_audio_chunks, upSent,
                   endLocal, endRuns, endCalls, current_stream_id, nextStreamId, audio_item, clientMsg,
                   saveLocal>>

\* a live_transcript send returned: go on with the same response
gemini_resume ==
    /\ pc["gemini"] \in {"after_it", "after_text"}
    /\ variant \in {"fixed", "working"}
    /\ GemApply(resp, GemAdvance(resp,
                    IF pc["gemini"] = "after_it" THEN "intr" ELSE "audio", partIdx,
                    [db |-> transcripts_db, ctr |-> transcript_counter,
                     buf |-> audio_buffer]), 0)
    /\ UNCHANGED <<variant, peer, hist, faultKinds, wsOpen, stored, now, interview,
                   is_session_active, last_audio_time, pending_audio_chunks, upSent,
                   endLocal, endRuns, endCalls, current_stream_id, nextStreamId, audio_item, clientMsg,
                   saveLocal>>

\* the upstream connection closes: session.receive() ends
upstream_close ==
    /\ pc["gemini"] = "recv"
    /\ pc' = [pc EXCEPT !["gemini"] = "done"]
    /\ UNCHANGED <<variant, peer, hist, faultKinds, stored, envBudget, wsRaised, wsOpen, now, interview, is_session_active, last_activity,
                   last_audio_time, pending_audio_chunks, audio_buffer,
                   transcript_counter, transcripts_db, wsOut, upSent, endLocal, endRuns, endCalls,
                   current_stream_id, nextStreamId, audio_item, resp, partIdx, clientMsg, saveLocal>>


-----------------------------------------------------------------------------
(* audio_sender (fixed and working variants)                                *)

RECURSIVE JoinReversed(_)
\* a join that puts the newest frame first
JoinReversed(chunks) ==
    IF chunks = <<>> THEN <<>> ELSE JoinReversed(Tail(chunks)) \o Head(chunks)

RECURSIVE Join(_)
\* b''.join(chunks)
Join(chunks) == IF chunks = <<>> THEN <<>> ELSE Head(chunks) \o Join(Tail(chunks))

FlushDue ==
    /\ pending_audio_chunks # <<>>
    /\ last_audio_time # NoTime
    /\ now - last_audio_time > audio_chunk_timeout

SilenceDue ==
    /\ last_audio_time # NoTime
    /\ now - last_audio_time > silence_threshold

\* send_audio_to_gemini hands a payload to the upstream session unless it is empty
Forwardable(payload) == ByteLen(payload) > 0

\* the sender wakes from its sleep: loop test, then one of the two branches
audio_sender ==
    /\ pc["sender"] = "sleep"
    /\ variant \in {"fixed", "working"}
    /\ IF ~is_session_active
       THEN /\ pc' = [pc EXCEPT !["sender"] = "done"]
            /\ UNCHANGED <<pending_audio_chunks, last_audio_time, upSent, envBudget>>
       ELSE IF FlushDue
       THEN LET combined_audio == Join(pending_audio_chunks)
            IN /\ pending_audio_chunks' = <<>>
               /\ \E ok \in Outcome("up") :
                     /\ envBudget' = IF Forwardable(combined_audio)
                                       THEN Spend1("up", ok) ELSE envBudget
                     /\ (~Forwardable(combined_audio)) => ok
                     /\ upSent' = IF Forwardable(combined_audio) /\ ok
                                  THEN Append(upSent, [kind |-> "audio",
                                                       data |-> combined_audio])
                                  ELSE upSent
               /\ UNCHANGED <<pc, last_audio_time>>
       ELSE IF SilenceDue
       THEN \E ok \in Outcome("up") :
               /\ envBudget' = Spend1("up", ok)
               /\ upSent' = IF ok THEN Append(upSent, [kind |-> "end", data |-> <<>>])
                            ELSE upSent
               \* the marker is reset after the await
               /\ pc' = [pc EXCEPT !["sender"] = IF ok THEN "after_end" ELSE "sleep"]
               /\ last_audio_time' = IF ok THEN last_audio_time ELSE NoTime
               /\ UNCHANGED pending_audio_chunks
       ELSE UNCHANGED <<pc, pending_audio_chunks, last_audio_time, upSent, envBudget>>
    /\ hist' = IF is_session_active /\ FlushDue /\ Forwardable(Join(pending_audio_chunks))
               THEN [hist EXCEPT !.handed = Append(@, Join(pending_audio_chunks))]
               ELSE hist
    /\ UNCHANGED <<variant, peer, faultKinds, wsOpen, stored, wsRaised, now,
                   interview, is_session_active, last_activity, audio_buffer,
                   transcript_counter, transcripts_db, wsOut, endLocal, endRuns, endCalls,
                   current_stream_id, nextStreamId, audio_item, resp, partIdx, clientMsg,
                   saveLocal>>

\* the stream-end send returned: reset the marker, then sleep
sender_after_end ==
    /\ pc["sender"] = "after_end"
    /\ last_audio_time' = NoTime
    /\ pc' = [pc EXCEPT !["sender"] = "sleep"]
    /\ UNCHANGED <<variant, peer, hist, faultKinds, wsOpen, stored, envBudget, wsRaised, now, interview, is_session_active, last_activity,
                   pending_audio_chunks, audio_buffer, transcript_counter,
                   transcripts_db, wsOut, upSent, endLocal, endRuns, endCalls, current_stream_id,
                   nextStreamId, audio_item, resp, partIdx, clientMsg, saveLocal>>

-----------------------------------------------------------------------------
(* audio_streamer (fixed and working variants)                              *)

NoItem == [end_turn |-> FALSE, data |-> 0]

\* where a websocket send that raised leaves the streamer: the working variant
\* leaves the loop on ConnectionClosed, any other error is logged and slept on
StreamerRaise == IF variant = "working" /\ ~wsOpen THEN "done" ELSE "yield"

\* a streamer that opens a stream for every fragment
NeedsStartAlways(sid) == TRUE

\* whether the start message is needed for this fragment
NeedsStart(sid) == sid = 0

\* a fragment as a chunk message of stream sid
ChunkMsg(sid, item) == Msg("audio_chunk_response", sid, item.data)

\* an item is taken from the queue and handled up to the next await
audio_streamer ==
    /\ pc["streamer"] = "wait"
    /\ variant \in {"fixed", "working"}
    /\ audio_buffer # <<>>
    /\ audio_buffer' = Tail(audio_buffer)
    /\ LET item == Head(audio_buffer)
       IN \E ok \in Outcome("ws") :
            IF item.end_turn
            THEN IF current_stream_id # 0
                 THEN /\ envBudget' = Spend1("ws", ok)
                      /\ wsRaised' = (wsRaised \/ ~ok)
                      /\ wsOut' = IF ok
                                  THEN Append(wsOut, Msg("audio_stream_end",
                                                         current_stream_id, Nil))
                                  ELSE wsOut
                      /\ current_stream_id' = IF ok THEN 0 ELSE current_stream_id
                      /\ pc' = [pc EXCEPT !["streamer"] =
                                   IF ok THEN "yield" ELSE StreamerRaise]
                      /\ UNCHANGED <<nextStreamId, audio_item>>
                 ELSE /\ pc' = [pc EXCEPT !["streamer"] =
                                   IF is_session_active THEN "wait" ELSE "done"]
                      /\ UNCHANGED <<envBudget, wsRaised, wsOut, current_stream_id,
                                     nextStreamId, audio_item>>
            ELSE IF NeedsStart(current_stream_id)
                 THEN /\ current_stream_id' = nextStreamId
                      /\ nextStreamId' = nextStreamId + 1
                      /\ envBudget' = Spend1("ws", ok)
                      /\ wsRaised' = (wsRaised \/ ~ok)
                      /\ wsOut' = IF ok
                                  THEN Append(wsOut, Msg("audio_stream_start",
                                                         nextStreamId, Nil))
                                  ELSE wsOut
                      /\ pc' = [pc EXCEPT !["streamer"] =
                                   IF ok THEN "after_start" ELSE StreamerRaise]
                      /\ audio_item' = IF ok THEN item ELSE NoItem
                 ELSE /\ envBudget' = Spend1("ws", ok)
                      /\ wsRaised' = (wsRaised \/ ~ok)
                      /\ wsOut' = IF ok THEN Append(wsOut, ChunkMsg(current_stream_id, item))
                                  ELSE wsOut
                      /\ pc' = [pc EXCEPT !["streamer"] =
                                   IF ok THEN "yield" ELSE StreamerRaise]
                      /\ UNCHANGED <<current_stream_id, nextStreamId, audio_item>>
    /\ UNCHANGED <<variant, peer, hist, faultKinds, wsOpen, stored, now, interview,
                   is_session_active, last_activity, last_audio_time,
                   pending_audio_chunks, transcript_counter, transcripts_db, upSent,
                   endLocal, endRuns, endCalls, resp, partIdx, clientMsg, saveLocal>>

\* the stream-start send returned: send the fragment under the new identifier
streamer_after_start ==
    /\ pc["streamer"] = "after_start"
    /\ \E ok \in Outcome("ws") :
          /\ envBudget' = Spend1("ws", ok)
          /\ wsRaised' = (wsRaised \/ ~ok)
          /\ wsOut' = IF ok THEN Append(wsOut, ChunkMsg(current_stream_id, audio_item))
                      ELSE wsOut
          /\ pc' = [pc EXCEPT !["streamer"] = IF ok THEN "yield" ELSE StreamerRaise]
    /\ audio_item' = NoItem
    /\ UNCHANGED <<variant, peer, hist, faultKinds, wsOpen, stored, now, interview,
                   is_session_active, last_activity, last_audio_time,
                   pending_audio_chunks, audio_buffer, transcript_counter,
                   transcripts_db, upSent, endLocal, endRuns, endCalls, current_stream_id,
                   nextStreamId, resp, partIdx, clientMsg, saveLocal>>

\* a send returned, the error sleep ended or the queue wait timed out:
\* the loop test
streamer_loop ==
    /\ \/ pc["streamer"] = "yield"
       \/ pc["streamer"] = "wait" /\ audio_buffer = <<>> /\ ~is_session_active
    /\ pc' = [pc EXCEPT !["streamer"] = IF is_session_active THEN "wait" ELSE "done"]
    /\ UNCHANGED <<variant, peer, hist, faultKinds, wsOpen, stored, envBudget, wsRaised, now, interview, is_session_active, last_activity,
                   last_audio_time, pending_audio_chunks, audio_buffer,
                   transcript_counter, transcripts_db, wsOut, upSent, endLocal, endRuns, endCalls,
                   current_stream_id, nextStreamId, audio_item, resp, partIdx, clientMsg,
                   saveLocal>>

-----------------------------------------------------------------------------
(* monitor_inactivity (fixed and working variants)                          *)

\* a test that already holds when the time since the last activity equals
\* the threshold
InactiveAtThreshold ==
    last_activity # NoTime /\ now - last_activity >= conversation_inactive_threshold

\* the test of the monitor: the threshold is strictly exceeded
Inactive == last_activity # NoTime /\ now - last_activity > conversation_inactive_threshold

\* the monitor wakes from its sleep and polls
monitor_inactivity ==
    /\ pc["monitor"] = "sleep"
    /\ variant \in {"fixed", "working"}
    /\ IF Inactive
       THEN /\ is_session_active' = FALSE
            /\ IF variant = "fixed"
               THEN EndCall("monitor", pc, 0)
               ELSE /\ pc' = [pc EXCEPT !["monitor"] = "done"]
                    /\ UNCHANGED <<interview, upSent, endLocal, endRuns, endCalls, envBudget>>
       ELSE /\ pc' = [pc EXCEPT !["monitor"] = IF is_session_active THEN "sleep" ELSE "done"]
            /\ UNCHANGED <<is_session_active, interview, upSent, endLocal, endRuns, endCalls,
                           envBudget>>
    /\ UNCHANGED <<variant, peer, hist, faultKinds, wsOpen, stored, wsRaised, now,
                   last_activity, last_audio_time, pending_audio_chunks, audio_buffer,
                   transcript_counter, transcripts_db, wsOut, current_stream_id,
                   nextStreamId, audio_item, resp, partIdx, clientMsg, saveLocal>>

-----------------------------------------------------------------------------
(* The clock *)

\* time passes: d units of 50 ms
Tick(d, limit) ==
    /\ now + d <= limit
    /\ envBudget > 0
    /\ envBudget' = envBudget - 1
    /\ now' = now + d
    /\ UNCHANGED <<variant, peer, hist, faultKinds, wsOpen, stored, wsRaised, interview, is_session_active, last_activity, last_audio_time,
                   pending_audio_chunks, audio_buffer, transcript_counter,
                   transcripts_db, wsOut, upSent, pc, endLocal, endRuns, endCalls,
                   current_stream_id, nextStreamId, audio_item, resp, partIdx, clientMsg, saveLocal>>


-----------------------------------------------------------------------------
(* GeminiLiveHandler (api/websocket.py)                                     *)

IdleSave == [pc |-> "idle", seq |-> 0, text |-> Nil]

\* a guard that tests only that the session row exists
ApiEndGuardNoStatus == interview.status # "none"

\* the guard of end_interview
ApiEndGuard == interview.status = "active"

\* where an exception that leaves end_interview takes its caller: the two
\* message loops catch it, the monitor and start_interview do not
ApiEndRaised(c) == IF c \in {"client", "gemini"} THEN "done" ELSE "raised"

\* a call that leaves the status active until the sequence is over
ApiEndCallKeepsActive(c, pcNow) ==
    /\ endCalls' = endCalls \cup {c}
    /\ IF ApiEndGuard
       THEN /\ interview' = [interview EXCEPT
                                !.ended_at = now,
                                !.duration_seconds =
                                    DurationSeconds(interview.started_at, now)]
            /\ endRuns' = endRuns + 1
            /\ endLocal' = [endLocal EXCEPT ![c] =
                               [pc |-> "list", summary |-> Nil, total |-> 0]]
            /\ pc' = [pcNow EXCEPT ![c] = "end_interview"]
       ELSE /\ pc' = [pcNow EXCEPT ![c] = "done"]
            /\ UNCHANGED <<interview, endRuns, endLocal>>

\* Call of end_interview by task c: up to the suspension in the transcript query
ApiEndCall(c, pcNow) ==
    /\ endCalls' = endCalls \cup {c}
    /\ IF ApiEndGuard
       THEN /\ interview' = [interview EXCEPT
                                !.status = "completed",
                                !.ended_at = now,
                                !.duration_seconds =
                                    DurationSeconds(interview.started_at, now)]
            /\ endRuns' = endRuns + 1
            /\ endLocal' = [endLocal EXCEPT ![c] =
                               [pc |-> "list", summary |-> Nil, total |-> 0]]
            /\ pc' = [pcNow EXCEPT ![c] = "end_interview"]
       ELSE /\ pc' = [pcNow EXCEPT ![c] = "done"]
            /\ UNCHANGED <<interview, endRuns, endLocal>>

\* an except branch that puts the session back to active
ApiEndFailReopens(c) ==
    /\ interview' = [interview EXCEPT !.status = "active"]
    /\ endLocal' = [endLocal EXCEPT ![c].pc = "fail_save"]

\* the except branch of end_interview: status failed, then the save is awaited
ApiEndFail(c) ==
    /\ interview' = [interview EXCEPT !.status = "failed"]
    /\ endLocal' = [endLocal EXCEPT ![c].pc = "fail_save"]

\* the transcript query returned
api_end_list(c) ==
    /\ variant = "api"
    /\ pc[c] = "end_interview" /\ endLocal[c].pc = "list"
    /\ \E ok \in Outcome("storage") :
          /\ envBudget' = Spend1("storage", ok)
          /\ IF ok
             THEN /\ interview' = [interview EXCEPT
                                      !.full_transcript = FullTranscript(transcripts_db)]
                  /\ endLocal' = [endLocal EXCEPT ![c].pc = "summary"]
             ELSE ApiEndFail(c)
    /\ UNCHANGED <<variant, peer, hist, faultKinds, stored, wsOpen, wsRaised, now, is_session_active, last_activity, last_audio_time,
                   pending_audio_chunks, audio_buffer, transcript_counter,
                   transcripts_db, wsOut, upSent, pc, endRuns, endCalls,
                   current_stream_id, nextStreamId, audio_item, resp, partIdx, clientMsg,
                   saveLocal>>

\* the summary collaborator answered (or raised: placeholder)
api_end_summary(c) ==
    /\ variant = "api"
    /\ pc[c] = "end_interview" /\ endLocal[c].pc = "summary"
    /\ \E ok \in Outcome("summary") :
          /\ envBudget' = Spend1("summary", ok)
          /\ interview' = [interview EXCEPT
                              !.summary = IF ok THEN "SUMMARY_OK" ELSE "SUMMARY_FAILED"]
          /\ endLocal' = [endLocal EXCEPT
                              ![c].pc = "save",
                              ![c].summary = IF ok THEN "SUMMARY_OK" ELSE "SUMMARY_FAILED"]
    /\ UNCHANGED <<variant, peer, hist, faultKinds, stored, wsOpen, wsRaised, now, is_session_active, last_activity, last_audio_time,
                   pending_audio_chunks, audio_buffer, transcript_counter,
                   transcripts_db, wsOut, upSent, pc, endRuns, endCalls,
                   current_stream_id, nextStreamId, audio_item, resp, partIdx, clientMsg,
                   saveLocal>>

\* interview.save() returned: notify the client
api_end_save(c) ==
    /\ variant = "api"
    /\ pc[c] = "end_interview" /\ endLocal[c].pc = "save"
    /\ \E saved \in Outcome("storage"), ok \in Outcome("ws") :
          /\ Spend2("storage", saved, "ws", ok) >= 0
          /\ saved \/ ok \/ ~wsOpen
          /\ envBudget' = IF saved THEN Spend1("ws", ok) ELSE Spend1("storage", saved)
          /\ stored' = IF saved
                       THEN [status |-> "completed", saves |-> stored.saves + 1]
                       ELSE stored
          /\ wsRaised' = (wsRaised \/ (saved /\ ~ok))
          /\ IF saved /\ ok
             THEN /\ wsOut' = Append(wsOut, EndedMsg(c))
                  /\ endLocal' = [endLocal EXCEPT ![c].pc = "after_notify"]
                  /\ UNCHANGED interview
             ELSE /\ wsOut' = wsOut
                  /\ ApiEndFail(c)
    /\ UNCHANGED <<variant, peer, hist, faultKinds, wsOpen, now,
                   is_session_active, last_activity, last_audio_time,
                   pending_audio_chunks, audio_buffer, transcript_counter,
                   transcripts_db, upSent, pc, endRuns, endCalls, current_stream_id,
                   nextStreamId, audio_item, resp, partIdx, clientMsg, saveLocal>>

\* end_interview returns, or the save in its except branch raises
api_end_return(c) ==
    /\ variant = "api"
    /\ pc[c] = "end_interview" /\ endLocal[c].pc \in {"after_notify", "fail_save"}
    /\ \E saved \in Outcome("storage") :
          /\ (endLocal[c].pc = "after_notify") => saved
          /\ envBudget' = Spend1("storage", saved)
          /\ stored' = IF endLocal[c].pc = "fail_save" /\ saved
                       THEN [status |-> "failed", saves |-> stored.saves + 1]
                       ELSE stored
          /\ pc' = [pc EXCEPT ![c] = IF saved THEN "done" ELSE ApiEndRaised(c)]
    /\ endLocal' = [endLocal EXCEPT ![c] = IdleEnd]
    /\ UNCHANGED <<variant, peer, hist, faultKinds, wsOpen, wsRaised, now,
                   interview, is_session_active, last_activity, last_audio_time,
                   pending_audio_chunks, audio_buffer, transcript_counter,
                   transcripts_db, wsOut, upSent, endRuns, endCalls, current_stream_id,
                   nextStreamId, audio_item, resp, partIdx, clientMsg, saveLocal>>

\* asyncio.gather returned or raised (a task raised): the finally block
api_gather_finally ==
    /\ pc["main"] = "gather"
    /\ variant = "api"
    /\ \/ \A t \in TaskSet : pc[t] = "done"
       \/ \E t \in TaskSet : pc[t] = "raised"
    /\ ApiEndCall("main", pc)
    /\ UNCHANGED <<variant, peer, hist, faultKinds, stored, wsOpen, envBudget, wsRaised,
                   now, is_session_active, last_activity,
                   last_audio_time, pending_audio_chunks, audio_buffer,
                   transcript_counter, transcripts_db, wsOut, upSent, current_stream_id,
                   nextStreamId, audio_item, resp, partIdx, clientMsg, saveLocal>>

\* save_live_transcript up to its await: the sequence number is read now
ApiSaveCall(t, text) == [saveLocal EXCEPT ![t] =
                            [pc |-> "saving", seq |-> transcript_counter, text |-> text]]

\* one client message is handled up to the next await
api_handle_client_messages(m) ==
    /\ pc["client"] = "recv"
    /\ variant = "api"
    /\ envBudget > 0
    /\ CASE m.type = "audio_chunk" ->
              \* send_audio_to_gemini swallows a failed send
              \E ok \in OutcomeAfter("up", 1) :
                 /\ envBudget' = Spend1("up", ok) - 1
                 /\ upSent' = IF ok THEN Append(upSent, [kind |-> "audio", data |-> m.audio])
                              ELSE upSent
                 /\ pc' = [pc EXCEPT !["client"] = "after_audio"]
                 /\ UNCHANGED <<interview, endRuns, endLocal, endCalls, clientMsg>>
         [] m.type = "stop_interview" ->
              /\ ApiEndCall("client", pc)
              /\ envBudget' = envBudget - 1
              /\ UNCHANGED <<upSent, clientMsg>>
         [] m.type = "text_input" ->
              \E ok \in OutcomeAfter("up", 1) :
                 /\ envBudget' = Spend1("up", ok) - 1
                 /\ upSent' = IF ok THEN Append(upSent, [kind |-> "text", data |-> m.text])
                              ELSE upSent
                 /\ pc' = [pc EXCEPT !["client"] = IF ok THEN "after_text" ELSE "done"]
                 /\ clientMsg' = IF ok THEN m ELSE clientMsg
                 /\ UNCHANGED <<interview, endRuns, endLocal, endCalls>>
         [] m.type \in {"bad_json", Nil} ->
              \* json.loads or data['type'] raises: the reader ends
              /\ pc' = [pc EXCEPT !["client"] = "done"]
              /\ envBudget' = envBudget - 1
              /\ UNCHANGED <<interview, endRuns, endLocal, endCalls, upSent, clientMsg>>
         [] OTHER ->
              /\ envBudget' = envBudget - 1
              /\ UNCHANGED <<pc, interview, endRuns, endLocal, endCalls, upSent, clientMsg>>
    /\ UNCHANGED <<variant, peer, hist, faultKinds, stored, wsOpen, wsRaised, now,
                   is_session_active, last_activity, last_audio_time,
                   pending_audio_chunks, audio_buffer, transcript_counter,
                   transcripts_db, wsOut, current_stream_id, nextStreamId, audio_item,
                   resp, partIdx, saveLocal>>

\* an upstream send of the reader returned
api_client_resume ==
    /\ variant = "api"
    /\ pc["client"] \in {"after_audio", "after_text"}
    /\ IF pc["client"] = "after_audio"
       THEN /\ last_activity' = now
            /\ pc' = [pc EXCEPT !["client"] = "recv"]
            /\ UNCHANGED saveLocal
       ELSE /\ saveLocal' = ApiSaveCall("client", clientMsg.text)
            /\ pc' = [pc EXCEPT !["client"] = "saving"]
            /\ UNCHANGED last_activity
    /\ UNCHANGED <<variant, peer, hist, faultKinds, stored, wsOpen, envBudget, wsRaised,
                   now, interview, is_session_active,
                   last_audio_time, pending_audio_chunks, audio_buffer,
                   transcript_counter, transcripts_db, wsOut, upSent, endLocal, endRuns,
                   endCalls, current_stream_id, nextStreamId, audio_item, resp, partIdx,
                   clientMsg>>

\* the client went away: receive_text raises and the reader ends
api_client_disconnect ==
    /\ variant = "api"
    /\ pc["client"] = "recv"
    /\ wsOpen
    /\ wsOpen' = FALSE
    /\ pc' = [pc EXCEPT !["client"] = "done"]
    /\ UNCHANGED <<variant, peer, hist, faultKinds, stored, envBudget, wsRaised, now, interview, is_session_active, last_activity,
                   last_audio_time, pending_audio_chunks, audio_buffer,
                   transcript_counter, transcripts_db, wsOut, upSent, endLocal, endRuns,
                   endCalls, current_stream_id, nextStreamId, audio_item, resp, partIdx,
                   clientMsg, saveLocal>>

\* the row a save stores: the sequence number is the one read before the await
ApiRow(speaker, sv) == [speaker |-> speaker, text |-> sv.text, sequence_number |-> sv.seq]

\* the storage write of the reader's save returned: the counter is incremented
api_client_saved ==
    /\ variant = "api"
    /\ pc["client"] = "saving"
    /\ \E ok \in Outcome("storage") :
          /\ envBudget' = Spend1("storage", ok)
          /\ transcripts_db' = IF ok THEN Append(transcripts_db,
                                                 ApiRow("user", saveLocal["client"]))
                               ELSE transcripts_db
          /\ transcript_counter' = IF ok THEN transcript_counter + 1 ELSE transcript_counter
    /\ saveLocal' = [saveLocal EXCEPT !["client"] = IdleSave]
    /\ last_activity' = now
    /\ clientMsg' = NoClientMsg
    /\ pc' = [pc EXCEPT !["client"] = "recv"]
    /\ UNCHANGED <<variant, peer, hist, faultKinds, stored, wsOpen, wsRaised, now, interview, is_session_active, last_audio_time,
                   pending_audio_chunks, audio_buffer, wsOut, upSent, endLocal, endRuns,
                   endCalls, current_stream_id, nextStreamId, audio_item, resp, partIdx>>


RECURSIVE FirstText(_, _)
\* chunk.text: the text the response carries, if any
FirstText(parts, i) ==
    IF i > Len(parts) THEN Nil
    ELSE IF parts[i].text # Nil THEN parts[i].text ELSE FirstText(parts, i + 1)

RECURSIVE NextAudio(_, _)
\* index of the next part with inline_data from i on (0: none)
NextAudio(parts, i) ==
    IF i > Len(parts) THEN 0
    ELSE IF parts[i].data # 0 THEN i ELSE NextAudio(parts, i + 1)

\* any(phrase in text.lower() for phrase in ending_phrases)
is_conversation_ending(text) == text \in {"Goodbye", "goodbye now"}

\* the audio parts of response r from part i on, up to the next send; when
\* none is left the response is finished
ApiAudio(r, i, spent) ==
    LET j == NextAudio(r.parts, i)
    IN IF j = 0
       THEN /\ last_activity' = now
            /\ pc' = [pc EXCEPT !["gemini"] = "recv"]
            /\ resp' = NoResp
            /\ partIdx' = 0
            /\ envBudget' = envBudget - spent
            /\ UNCHANGED <<wsOut, wsRaised>>
       ELSE \E ok \in OutcomeAfter("ws", spent) :
              /\ envBudget' = Spend1("ws", ok) - spent
              /\ wsRaised' = (wsRaised \/ ~ok)
              /\ wsOut' = IF ok THEN Append(wsOut, Msg("audio_response", 0, r.parts[j].data))
                          ELSE wsOut
              /\ pc' = [pc EXCEPT !["gemini"] = IF ok THEN "after_audio" ELSE "done"]
              /\ resp' = IF ok THEN r ELSE NoResp
              /\ partIdx' = IF ok THEN j + 1 ELSE 0
              /\ UNCHANGED last_activity

\* the next upstream event arrives
api_handle_gemini_responses(r) ==
    /\ variant = "api"
    /\ pc["gemini"] = "recv"
    /\ envBudget > 0
    /\ IF ~r.sc
       THEN /\ envBudget' = envBudget - 1
            /\ UNCHANGED <<pc, resp, partIdx, saveLocal, last_activity, wsOut, wsRaised>>
       ELSE IF FirstText(r.parts, 1) \notin {Nil, ""}
       THEN /\ saveLocal' = ApiSaveCall("gemini", FirstText(r.parts, 1))
            /\ pc' = [pc EXCEPT !["gemini"] = "saving"]
            /\ resp' = r
            /\ envBudget' = envBudget - 1
            /\ UNCHANGED <<partIdx, last_activity, wsOut, wsRaised>>
       ELSE /\ ApiAudio(r, 1, 1)
            /\ UNCHANGED saveLocal
    /\ UNCHANGED <<variant, peer, hist, faultKinds, stored, wsOpen, now, interview,
                   is_session_active, last_audio_time, pending_audio_chunks,
                   audio_buffer, transcript_counter, transcripts_db, upSent, endLocal,
                   endRuns, endCalls, current_stream_id, nextStreamId, audio_item,
                   clientMsg>>

\* the storage write of the response loop's save returned: the counter is
\* incremented, then the live transcript is sent
api_gemini_saved ==
    /\ variant = "api"
    /\ pc["gemini"] = "saving"
    /\ \E stOk \in Outcome("storage"), ok \in Outcome("ws") :
          /\ Spend2("storage", stOk, "ws", ok) >= 0
          /\ envBudget' = Spend2("storage", stOk, "ws", ok)
          /\ transcripts_db' = IF stOk THEN Append(transcripts_db,
                                                   ApiRow("ai", saveLocal["gemini"]))
                               ELSE transcripts_db
          /\ transcript_counter' = IF stOk THEN transcript_counter + 1
                                   ELSE transcript_counter
          /\ wsRaised' = (wsRaised \/ ~ok)
          /\ wsOut' = IF ok THEN Append(wsOut, Msg("live_transcript", 0,
                                   [speaker |-> "ai", text |-> saveLocal["gemini"].text]))
                      ELSE wsOut
          /\ pc' = [pc EXCEPT !["gemini"] = IF ok THEN "after_transcript" ELSE "done"]
    /\ saveLocal' = [saveLocal EXCEPT !["gemini"] = IdleSave]
    /\ UNCHANGED <<variant, peer, hist, faultKinds, stored, wsOpen, now,
                   interview, is_session_active, last_activity, last_audio_time,
                   pending_audio_chunks, audio_buffer, upSent, endLocal, endRuns,
                   endCalls, current_stream_id, nextStreamId, audio_item, resp, partIdx,
                   clientMsg>>

\* a send of the response loop returned
api_gemini_resume ==
    /\ variant = "api"
    /\ pc["gemini"] \in {"after_transcript", "after_audio"}
    /\ IF pc["gemini"] = "after_transcript" /\ is_conversation_ending(FirstText(resp.parts, 1))
       THEN \* asyncio.sleep(2) before ending the interview
            /\ pc' = [pc EXCEPT !["gemini"] = "pause"]
            /\ UNCHANGED <<resp, partIdx, last_activity, wsOut, wsRaised, envBudget>>
       ELSE ApiAudio(resp, IF pc["gemini"] = "after_transcript" THEN 1 ELSE partIdx, 0)
    /\ UNCHANGED <<variant, peer, hist, faultKinds, stored, wsOpen, now,
                   interview, is_session_active, last_audio_time, pending_audio_chunks,
                   audio_buffer, transcript_counter, transcripts_db, upSent, endLocal,
                   endRuns, endCalls, current_stream_id, nextStreamId, audio_item,
                   clientMsg, saveLocal>>

\* the pause after a closing remark is over: end the interview
api_gemini_pause_done ==
    /\ variant = "api"
    /\ pc["gemini"] = "pause"
    /\ ApiEndCall("gemini", pc)
    /\ UNCHANGED <<variant, peer, hist, faultKinds, stored, wsOpen, envBudget, wsRaised,
                   now, is_session_active, last_activity,
                   last_audio_time, pending_audio_chunks, audio_buffer,
                   transcript_counter, transcripts_db, wsOut, upSent, current_stream_id,
                   nextStreamId, audio_item, resp, partIdx, clientMsg, saveLocal>>

\* the monitor wakes from its sleep and polls
api_monitor_inactivity ==
    /\ variant = "api"
    /\ pc["monitor"] = "sleep"
    /\ Inactive
    /\ ApiEndCall("monitor", pc)
    /\ UNCHANGED <<variant, peer, hist, faultKinds, stored, wsOpen, envBudget, wsRaised,
                   now, is_session_active, last_activity,
                   last_audio_time, pending_audio_chunks, audio_buffer,
                   transcript_counter, transcripts_db, wsOut, upSent, current_stream_id,
                   nextStreamId, audio_item, resp, partIdx, clientMsg, saveLocal>>

-----------------------------------------------------------------------------
(* Initial state and environment                                            *)

\* the state after the handler's constructor, before start_interview
InitOf(v, kinds, events) ==
    /\ variant = v
    /\ faultKinds = kinds
    /\ envBudget = events
    /\ wsRaised = FALSE
    /\ wsOpen = TRUE
    /\ now = 0
    /\ interview = [status |-> "none", started_at |-> NoTime, ended_at |-> NoTime,
                    duration_seconds |-> 0, full_transcript |-> <<>>, summary |-> ""]
    /\ is_session_active = TRUE
    /\ last_activity = NoTime
    /\ last_audio_time = NoTime
    /\ pending_audio_chunks = <<>>
    /\ audio_buffer = <<>>
    /\ transcript_counter = 0
    /\ transcripts_db = <<>>
    /\ wsOut = <<>>
    /\ upSent = <<>>
    /\ pc = [t \in Tasks |-> IF t = "main" THEN "init" ELSE "unborn"]
    /\ endLocal = [c \in EndCallers |-> IdleEnd]
    /\ endRuns = 0
    /\ endCalls = {}
    /\ stored = [status |-> "none", saves |-> 0]
    /\ current_stream_id = 0
    /\ nextStreamId = 1
    /\ audio_item = NoItem
    /\ resp = NoResp
    /\ partIdx = 0
    /\ clientMsg = NoClientMsg
    /\ saveLocal = [t \in {"client", "gemini"} |-> IdleSave]
    /\ hist = NoHist
    /\ peer = [status |-> "none", transcript_counter |-> 0, full_transcript |-> <<>>,
               total_transcripts |-> 0]

\* a jump of the clock that is long enough for the inactivity threshold to pass
LongWait == conversation_inactive_threshold + 1

StopMsg == ClientMsg("stop_interview", <<>>, Nil)
BadJson == ClientMsg("bad_json", <<>>, Nil)
AudioMsg(frame) == ClientMsg("audio_chunk", frame, Nil)
TextMsg(t) == ClientMsg("text_input", <<>>, t)

\* what the client sends in the life-cycle scenarios
LifeClientMsgs == {StopMsg, BadJson, TextMsg("hi")}

\* what the upstream sends in the life-cycle scenarios
LifeResps == {Resp(TRUE, Nil, FALSE, <<Part("yo", 0)>>, FALSE),
              Resp(TRUE, Nil, FALSE, <<Part("Goodbye", 0)>>, FALSE)}

EndSteps(c) ==
    \/ EndSummary(c)
    \/ EndNotify(c)
    \/ EndReturn(c)

ApiEndSteps(c) ==
    \/ api_end_list(c)
    \/ api_end_summary(c)
    \/ api_end_save(c)
    \/ api_end_return(c)

\* the faults the environment may inject in the life-cycle scenarios
LifeFaults == {"ws", "summary", "connect", "storage"}

-----------------------------------------------------------------------------
(* Life cycle of a session, for each of the three handlers                  *)

InitLife == \E v \in {"fixed", "working", "api"} : InitOf(v, LifeFaults, LifeEvents)

NextLife ==
    \/ start_interview
    \/ connect
    \/ handle_websocket
    \/ gather_finally
    \/ \E m \in LifeClientMsgs : handle_client_messages(m)
    \/ client_after_text
    \/ client_disconnect
    \/ \E r \in LifeResps : handle_gemini_responses(r)
    \/ gemini_resume
    \/ upstream_close
    \/ monitor_inactivity
    \/ audio_sender
    \/ streamer_loop
    \/ \E c \in EndCallers : EndSteps(c)
    \/ api_gather_finally
    \/ \E m \in LifeClientMsgs : api_handle_client_messages(m)
    \/ api_client_resume
    \/ api_client_saved
    \/ api_client_disconnect
    \/ \E r \in LifeResps : api_handle_gemini_responses(r)
    \/ api_gemini_saved
    \/ api_gemini_resume
    \/ api_gemini_pause_done
    \/ api_monitor_inactivity
    \/ \E c \in EndCallers : ApiEndSteps(c)
    \/ Tick(LongWait, LifeEvents * LongWait)

SpecLife == InitLife /\ [][NextLife]_vars

-----------------------------------------------------------------------------
(* Termination triggers of WorkingGeminiLiveHandler: the client sends only  *)
(* stop_interview, no collaborator fails                                    *)

InitTrigger == InitOf("working", {}, TriggerEvents)

\* the steps the handler takes on its own: they need no client message and
\* no upstream event (timers count as the handler's own)
ProgramSteps ==
    \/ start_interview
    \/ connect
    \/ gather_finally
    \/ gemini_resume
    \/ monitor_inactivity
    \/ audio_sender
    \/ streamer_loop
    \/ \E c \in EndCallers : EndSteps(c)

NextTrigger ==
    \/ ProgramSteps
    \/ handle_client_messages(StopMsg)
    \/ \E r \in LifeResps : handle_gemini_responses(r)
    \/ upstream_close
    \/ Tick(LongWait, TriggerEvents * LongWait)

SpecTrigger == InitTrigger /\ [][NextTrigger]_vars

-----------------------------------------------------------------------------
(* Audio streaming to the client (fixed and working variants): responses    *)
(* carry audio fragments, turn-complete markers and interruptions, and a    *)
(* websocket send may raise                                                 *)

\* what the upstream sends in the streaming scenarios
StreamResps == {Resp(TRUE, Nil, FALSE, <<Part("yo", 7)>>, TRUE),
                Resp(TRUE, Nil, FALSE, <<Part(Nil, 7), Part(Nil, 8)>>, FALSE),
                Resp(TRUE, Nil, TRUE, <<>>, TRUE)}

InitStream == \E v \in {"fixed", "working"} : InitOf(v, {"ws"}, StreamEvents)

NextStream ==
    \/ start_interview
    \/ connect
    \/ handle_websocket
    \/ gather_finally
    \/ handle_client_messages(StopMsg)
    \/ client_disconnect
    \/ \E r \in StreamResps : handle_gemini_responses(r)
    \/ gemini_resume
    \/ upstream_close
    \/ monitor_inactivity
    \/ audio_sender
    \/ audio_streamer
    \/ streamer_after_start
    \/ streamer_loop
    \/ \E c \in EndCallers : EndSteps(c)

SpecStream == InitStream /\ [][NextStream]_vars

-----------------------------------------------------------------------------
(* Inbound audio batching of FixedGeminiLiveHandler: frames (also empty     *)
(* ones) arrive while the sender ticks; an upstream send may raise          *)

BatchClientMsgs == {AudioMsg(<<>>), AudioMsg(<<1>>), AudioMsg(<<2>>), StopMsg}

\* the clock advances by one unit, or just past one of the two thresholds
BatchJumps == {1, audio_chunk_timeout + 1, silence_threshold + 1}

InitBatch == InitOf("fixed", {"up"}, BatchEvents)

NextBatch ==
    \/ start_interview
    \/ connect
    \/ gather_finally
    \/ \E m \in BatchClientMsgs : handle_client_messages(m)
    \/ upstream_close
    \/ monitor_inactivity
    \/ audio_sender
    \/ sender_after_end
    \/ streamer_loop
    \/ \E c \in EndCallers : EndNotify(c) \/ EndReturn(c)
    \/ \E d \in BatchJumps : Tick(d, BatchEvents * (silence_threshold + 1))

SpecBatch == InitBatch /\ [][NextBatch]_vars

-----------------------------------------------------------------------------
(* Transcript recording of FixedGeminiLiveHandler: texts (also blank ones)  *)
(* come from the client reader and from the upstream receive loop           *)

TranscriptClientMsgs == {TextMsg("hi"), TextMsg(" "), StopMsg}

TranscriptResps == {Resp(TRUE, "hi", FALSE, <<Part("yo", 0)>>, FALSE),
                    Resp(TRUE, Nil, FALSE, <<Part(" ", 0), Part("yo", 0)>>, FALSE)}

InitTranscript == InitOf("fixed", {}, TranscriptEvents)

NextTranscript ==
    \/ start_interview
    \/ connect
    \/ gather_finally
    \/ \E m \in TranscriptClientMsgs : handle_client_messages(m)
    \/ client_after_text
    \/ \E r \in TranscriptResps : handle_gemini_responses(r)
    \/ gemini_resume
    \/ upstream_close
    \/ monitor_inactivity
    \/ audio_sender
    \/ streamer_loop
    \/ \E c \in EndCallers : EndSteps(c)

SpecTranscript == InitTranscript /\ [][NextTranscript]_vars

-----------------------------------------------------------------------------
(* Client input of the three handlers: texts, frames and malformed          *)
(* messages arrive; an upstream send may raise                              *)

\* a JSON object without a 'type' field
NoType == ClientMsg(Nil, <<>>, Nil)

\* the texts the client types
InputTexts == {"hi", " "}

InputClientMsgs == {BadJson, NoType, AudioMsg(<<1>>)} \cup {TextMsg(t) : t \in InputTexts}

InputResps == {Resp(TRUE, Nil, FALSE, <<Part("yo", 0)>>, FALSE)}

InitInput == \E v \in {"fixed", "working", "api"} : InitOf(v, {"up"}, InputEvents)

NextInput ==
    \/ start_interview
    \/ connect
    \/ handle_websocket
    \/ gather_finally
    \/ \E m \in InputClientMsgs : handle_client_messages(m)
    \/ client_after_text
    \/ \E r \in InputResps : handle_gemini_responses(r)
    \/ gemini_resume
    \/ upstream_close
    \/ monitor_inactivity
    \/ audio_sender
    \/ sender_after_end
    \/ streamer_loop
    \/ \E c \in EndCallers : EndSteps(c)
    \/ \E m \in InputClientMsgs : api_handle_client_messages(m)
    \/ api_client_resume
    \/ api_client_saved
    \/ \E r \in InputResps : api_handle_gemini_responses(r)
    \/ api_gemini_saved
    \/ api_gemini_resume
    \/ \E d \in BatchJumps : Tick(d, InputEvents * (silence_threshold + 1))

SpecInput == InitInput /\ [][NextInput]_vars

-----------------------------------------------------------------------------
(* Inactivity of the fixed and working handlers: frames, typed texts and    *)
(* upstream events arrive between waits that last exactly the inactivity    *)
(* threshold or just over it; no collaborator fails                         *)

IdleClientMsgs == {AudioMsg(<<1>>), TextMsg("hi")}

\* upstream events of no recognized shape: one without server_content, one
\* whose model turn has a part with neither text nor audio
IgnoredResps == {Resp(FALSE, Nil, FALSE, <<>>, FALSE),
                 Resp(TRUE, Nil, FALSE, <<Part(Nil, 0)>>, FALSE)}

IdleResps == {Resp(TRUE, Nil, FALSE, <<Part("yo", 0)>>, FALSE)} \cup IgnoredResps

\* the clock advances by the inactivity threshold, or just past it
IdleJumps == {conversation_inactive_threshold, LongWait}

InitIdle == \E v \in {"fixed", "working"} : InitOf(v, {}, IdleEvents)

NextIdle ==
    \/ start_interview
    \/ connect
    \/ gather_finally
    \/ \E m \in IdleClientMsgs : handle_client_messages(m)
    \/ client_after_text
    \/ \E r \in IdleResps : handle_gemini_responses(r)
    \/ gemini_resume
    \/ upstream_close
    \/ monitor_inactivity
    \/ audio_sender
    \/ sender_after_end
    \/ streamer_loop
    \/ \E c \in EndCallers : EndSteps(c)
    \/ \E d \in IdleJumps : Tick(d, IdleEvents * LongWait)

SpecIdle == InitIdle /\ [][NextIdle]_vars

-----------------------------------------------------------------------------
(* Turn taking of FixedGeminiLiveHandler: every AI turn is one response     *)
(* that carries one fragment and completes the turn, so the fragment's      *)
(* payload names its turn; an Interrupted event may come in between; no     *)
(* collaborator fails                                                       *)

TurnResps == {Resp(TRUE, Nil, FALSE, <<Part(Nil, 7)>>, TRUE),
              Resp(TRUE, Nil, FALSE, <<Part(Nil, 8)>>, TRUE),
              Resp(TRUE, Nil, TRUE, <<>>, FALSE)}

InitTurns == InitOf("fixed", {}, TurnEvents)

NextTurns ==
    \/ start_interview
    \/ connect
    \/ \E r \in TurnResps : handle_gemini_responses(r)
    \/ audio_streamer
    \/ streamer_after_start
    \/ streamer_loop

SpecTurns == InitTurns /\ [][NextTurns]_vars

-----------------------------------------------------------------------------
(* Two sessions on different connections, sharing the stores               *)

\* environment events in a scenario with a second session
SharedEvents == 4

\* what the other fields of this session's handler are to the second handler
PeerUnchanged ==
    UNCHANGED <<variant, faultKinds, wsRaised, wsOpen, now, interview,
                is_session_active, last_activity, last_audio_time,
                pending_audio_chunks, audio_buffer, transcript_counter, wsOut, upSent,
                pc, endLocal, endRuns, endCalls, stored, current_stream_id,
                nextStreamId, audio_item, resp, partIdx, clientMsg, saveLocal, hist>>

\* start_interview of the second handler: its own SimpleInterview, entered in
\* interviews_db under its own id
peer_start_interview ==
    /\ peer.status = "none"
    /\ peer' = [peer EXCEPT !.status = "active"]
    /\ UNCHANGED <<transcripts_db, envBudget>>
    /\ PeerUnchanged

\* save_live_transcript of the second handler: its own counter, the shared store
peer_save_live_transcript(speaker, text) ==
    /\ peer.status # "none"
    /\ envBudget > 0
    /\ envBudget' = envBudget - 1
    /\ IF Strip(text) # ""
       THEN /\ transcripts_db' = Append(transcripts_db,
                                        [interview_id |-> PeerId, speaker |-> speaker,
                                         text |-> Strip(text),
                                         sequence_number |-> peer.transcript_counter])
            /\ peer' = [peer EXCEPT !.transcript_counter = @ + 1]
       ELSE UNCHANGED <<transcripts_db, peer>>
    /\ PeerUnchanged

\* end_interview of the second handler, up to its first suspension
peer_end_interview ==
    /\ peer.status = "active"
    /\ peer' = [peer EXCEPT
                    !.status = "completed",
                    !.full_transcript = FullTranscript(RowsOf(transcripts_db, PeerId)),
                    !.total_transcripts = Len(RowsOf(transcripts_db, PeerId))]
    /\ UNCHANGED <<transcripts_db, envBudget>>
    /\ PeerUnchanged

InitShared == \E v \in {"fixed", "working"} : InitOf(v, {}, SharedEvents)

NextShared ==
    \/ start_interview
    \/ connect
    \/ gather_finally
    \/ \E m \in TranscriptClientMsgs : handle_client_messages(m)
    \/ client_after_text
    \/ \E r \in TranscriptResps : handle_gemini_responses(r)
    \/ gemini_resume
    \/ upstream_close
    \/ monitor_inactivity
    \/ audio_sender
    \/ streamer_loop
    \/ \E c \in EndCallers : EndSteps(c)
    \/ peer_start_interview
    \/ \E sp \in {"user", "ai"}, t \in {"other", " "} : peer_save_live_transcript(sp, t)
    \/ peer_end_interview

SpecShared == InitShared /\ [][NextShared]_vars

-----------------------------------------------------------------------------
(* Properties                                                               *)

CountType(type) == Cardinality({i \in DOMAIN wsOut : wsOut[i].type = type})

\* the termination sequence was entered and no caller is inside it any more
EndFinished ==
    /\ endRuns >= 1
    /\ \A c \in EndCallers : endLocal[c].pc \in {"idle", "after_notify"}

\* C1: in FixedGeminiLiveHandler the termination sequence is entered at most
\* once and the client is sent at most one interview_ended, whichever of the
\* triggers (stop_interview, inactivity, the finally block) comes first and
\* however the others race with it; when the sequence has run through with
\* status completed, exactly one interview_ended was sent.
C1_SingleTerminalMessage ==
    variant = "fixed" =>
        /\ endRuns <= 1
        /\ CountType("interview_ended") <= 1
        /\ (EndFinished /\ interview.status = "completed")
              => CountType("interview_ended") = 1

\* three triggers have raced: stop_interview, the inactivity monitor and the
\* finally block all invoked end_interview, and one terminal message was sent
C1_RaceWitness ==
    /\ variant = "fixed"
    /\ endCalls = {"client", "monitor", "main"}
    /\ CountType("interview_ended") = 1

\* C4: a call of end_interview made when the status is already completed or
\* failed changes no field of the session record, writes nothing to storage,
\* sends nothing upstream and sends nothing to the client.
C4_SecondEndIsNoOp ==
    [][(interview.status \in {"completed", "failed"} /\ endCalls' # endCalls)
          => UNCHANGED <<interview, stored, transcripts_db, transcript_counter,
                         upSent, wsOut, endRuns, endLocal>>]_vars

\* end_interview was invoked again after the session had ended as failed
C4_SecondCallWitness ==
    /\ Cardinality(endCalls) >= 2
    /\ interview.status = "failed"
    /\ endRuns = 1

\* start_interview is over: it returned, or an exception left it
MainOver == pc["main"] \in {"done", "raised", "closed"}

\* C3: when start_interview is over for a session whose interview_started
\* reached the client, and no websocket send has failed, the session has left
\* status active and the client was sent interview_ended; this includes the
\* sessions whose upstream connection could not be opened.
C3_StartedSessionIsEnded ==
    (MainOver /\ CountType("interview_started") = 1 /\ ~wsRaised)
        => /\ interview.status \in {"completed", "failed"}
           /\ CountType("interview_ended") >= 1

\* a termination trigger has fired: the session-active flag was cleared after
\* the tasks were started
TriggerFired == ~is_session_active /\ pc["main"] \in {"gather", "end_interview", "done"}

\* C2: in WorkingGeminiLiveHandler, when a trigger has fired and the handler
\* can take no further step of its own (whatever happens next needs a client
\* message or an upstream event), the termination sequence has run: the
\* session has left status active and interview_ended was sent.
C2_TriggerEndsSession ==
    (variant = "working" /\ TriggerFired /\ ~ENABLED ProgramSteps)
        => /\ interview.status \in {"completed", "failed"}
           /\ CountType("interview_ended") = 1

IsStart(m) == m.type = "audio_stream_start"
IsEnd(m) == m.type = "audio_stream_end"
IsChunk(m) == m.type = "audio_chunk_response"

\* the stream-start and stream-end messages the client received, in order
StreamMarks == SelectSeq(wsOut, LAMBDA m : IsStart(m) \/ IsEnd(m))

NoTwoStarts ==
    \A i \in 1..(Len(StreamMarks) - 1) :
        ~(IsStart(StreamMarks[i]) /\ IsStart(StreamMarks[i + 1]))

Alternate ==
    \A i \in 1..Len(StreamMarks) :
        IF i % 2 = 1 THEN IsStart(StreamMarks[i])
        ELSE /\ IsEnd(StreamMarks[i])
             /\ StreamMarks[i].stream_id = StreamMarks[i - 1].stream_id

\* the streamer takes a turn-complete marker from the queue while no stream
\* is open
TakesMarkerNoStream ==
    /\ pc["streamer"] = "wait"
    /\ current_stream_id = 0
    /\ audio_buffer # <<>> /\ Head(audio_buffer).end_turn
    /\ audio_buffer' = Tail(audio_buffer)
    /\ pc'["gemini"] = pc["gemini"] /\ resp' = resp /\ partIdx' = partIdx

\* C5: the client never receives two audio_stream_start messages without an
\* audio_stream_end between them; as long as no websocket send has raised,
\* starts and ends strictly alternate beginning with a start, each end
\* carrying the identifier of the start before it; and a turn-complete marker
\* taken from the queue while no stream is open sends nothing to the client.
C5_StartEndAlternate ==
    /\ [](NoTwoStarts /\ (~wsRaised => Alternate))
    /\ [][TakesMarkerNoStream => wsOut' = wsOut]_vars

\* a second stream was opened after the first was closed, over a healthy
\* connection, and a marker is queued while no stream is open
C5_SecondStreamWitness ==
    /\ ~wsRaised
    /\ Len(StreamMarks) >= 3
    /\ current_stream_id = 0
    /\ audio_buffer # <<>> /\ Head(audio_buffer).end_turn

\* C6: in FixedGeminiLiveHandler every audio_chunk_response the client
\* received carries the identifier of a stream whose audio_stream_start the
\* client received earlier and whose audio_stream_end was not sent in
\* between, also when a websocket send of the streamer raised.
C6_ChunkInsideOpenStream ==
    variant = "fixed" =>
        \A i \in DOMAIN wsOut :
            IsChunk(wsOut[i]) =>
                \E j \in 1..(i - 1) :
                    /\ IsStart(wsOut[j])
                    /\ wsOut[j].stream_id = wsOut[i].stream_id
                    /\ \A k \in (j + 1)..(i - 1) :
                           ~(IsEnd(wsOut[k]) /\ wsOut[k].stream_id = wsOut[i].stream_id)

\* C7: in FixedGeminiLiveHandler, when start_interview has returned over a
\* healthy connection, every stream that was opened towards the client has
\* been closed by exactly one audio_stream_end with its identifier.
C7_OpenedStreamIsClosed ==
    (variant = "fixed" /\ pc["main"] = "done" /\ wsOpen /\ ~wsRaised) =>
        \A i \in DOMAIN wsOut :
            IsStart(wsOut[i]) =>
                Cardinality({k \in DOMAIN wsOut :
                                /\ IsEnd(wsOut[k])
                                /\ wsOut[k].stream_id = wsOut[i].stream_id}) = 1

\* C8: in FixedGeminiLiveHandler no audio payload handed to the upstream
\* session is empty, and a zero-length frame is never kept for batching,
\* whatever frames arrive and however the client reader and the sender
\* interleave.
C8_NoEmptyPayloadForwarded ==
    variant = "fixed" =>
        /\ \A i \in DOMAIN upSent : upSent[i].kind = "audio" => Len(upSent[i].data) > 0
        /\ \A i \in DOMAIN pending_audio_chunks : Len(pending_audio_chunks[i]) > 0

\* two frames were batched into one payload and forwarded, and a later frame
\* is waiting for the next flush
C8_BatchForwardedWitness ==
    /\ variant = "fixed"
    /\ \E i \in DOMAIN upSent : upSent[i].kind = "audio" /\ Len(upSent[i].data) = 2
    /\ pending_audio_chunks # <<>>

\* C9: in FixedGeminiLiveHandler the utterances of a session, in the order
\* they were appended, carry the sequence numbers 0, 1, 2, ..., whether they
\* come from the upstream receive loop or from the client reader, and whatever
\* blank texts were skipped.
C9_SequenceNumbersAreDense ==
    variant = "fixed" =>
        \A i \in DOMAIN transcripts_db : transcripts_db[i].sequence_number = i - 1

\* a blank text_input was handled, and utterances of the client reader and of
\* the receive loop are both recorded
C9_BothWritersWitness ==
    /\ variant = "fixed"
    /\ pc["client"] = "recv"
    /\ \E i \in DOMAIN upSent : upSent[i].kind = "text" /\ upSent[i].data = " "
    /\ \E i \in DOMAIN upSent : upSent[i].kind = "text" /\ upSent[i].data = "hi"
    /\ \E i \in DOMAIN transcripts_db : transcripts_db[i].speaker = "ai"
    /\ Len(transcripts_db) >= 3

\* C10: in GeminiLiveHandler (api/websocket.py) no two stored utterances of a
\* session carry the same sequence number.
C10_SequenceNumbersAreUnique ==
    variant = "api" =>
        \A i, j \in DOMAIN transcripts_db :
            i # j => transcripts_db[i].sequence_number # transcripts_db[j].sequence_number

\* the stream-end signals handed to the upstream session since the last frame
\* was accepted
EndsSinceFrame ==
    Cardinality({i \in DOMAIN upSent : i > hist.frameAt /\ upSent[i].kind = "end"})

\* C11: once a frame has been accepted, at most one stream-end signal is sent
\* to the upstream session until the next frame is accepted, over the whole
\* remaining session, its termination sequence included.
C11_OneStreamEndPerSilence ==
    hist.frameAt >= 0 => EndsSinceFrame <= 1

\* the terminal send of end_interview, made by caller c over an open
\* connection, raises in this step
NotifyRaises(c) ==
    /\ pc[c] = "end_interview" /\ endLocal[c].pc = "after_streamend"
    /\ endLocal'[c] # endLocal[c]
    /\ envBudget' < envBudget

\* C12: in FixedGeminiLiveHandler and WorkingGeminiLiveHandler, when the
\* terminal send of the termination sequence raises, the session status
\* becomes failed and, unless the second send raises as well, the client is
\* sent the best-effort interview_ended message.
C12_RaisedEndStillNotifies ==
    [][\A c \in EndCallers :
          NotifyRaises(c) =>
              /\ interview'.status = "failed"
              /\ (envBudget - envBudget' = 1) => wsOut' = Append(wsOut, EndedErrMsg)]_vars

\* the summary call made by caller c returns in this step
SummaryReturns(c) ==
    /\ pc[c] = "end_interview" /\ endLocal[c].pc = "summary"
    /\ endLocal'[c] # endLocal[c]

\* the client received interview_ended carrying summary text t
EndedWith(t) ==
    \E i \in DOMAIN wsOut :
        wsOut[i].type = "interview_ended" /\ wsOut[i].body.summary = t

\* C13: in FixedGeminiLiveHandler the summary step always hands back a text
\* (the placeholder when the collaborator raises), leaves the status
\* completed and lets the termination sequence go on; a session whose summary
\* is the placeholder stays completed, and once the sequence has run through
\* the client has received interview_ended carrying the placeholder (as long
\* as no websocket send raised).
C13_SummaryFailureIsAbsorbed ==
    /\ [][\A c \in EndCallers :
            (variant = "fixed" /\ SummaryReturns(c)) =>
                /\ interview'.status = "completed"
                /\ interview'.summary \in {"SUMMARY_OK", "SUMMARY_FAILED"}
                /\ endLocal'[c].pc = "after_streamend"
                /\ endLocal'[c].summary = interview'.summary]_vars
    /\ []((variant = "fixed" /\ interview.summary = "SUMMARY_FAILED" /\ ~wsRaised) =>
             /\ interview.status = "completed"
             /\ EndFinished => EndedWith("SUMMARY_FAILED"))

\* the summary collaborator raised, and the session ended as completed with
\* the placeholder delivered in interview_ended
C13_PlaceholderWitness ==
    /\ variant = "fixed"
    /\ interview.summary = "SUMMARY_FAILED"
    /\ interview.status = "completed"
    /\ EndedWith("SUMMARY_FAILED")

\* an upstream send issued by the client reader (for a typed text) or by the
\* sender (an audio batch or the stream-end signal) raises in this step
UpstreamSendRaises ==
    \/ \E t \in InputTexts :
          handle_client_messages(TextMsg(t)) /\ envBudget - envBudget' = 2
    \/ audio_sender /\ envBudget' < envBudget

\* C14: in FixedGeminiLiveHandler, when an upstream send for a typed text, an
\* audio batch or the stream-end signal raises while the session is active,
\* the session-active flag stays set, the status stays active and neither the
\* client reader nor the sender stops.
C14_FailedUpstreamSendIsNotFatal ==
    [][(variant = "fixed" /\ is_session_active /\ interview.status = "active"
           /\ UpstreamSendRaises)
          => /\ is_session_active'
             /\ interview'.status = "active"
             /\ pc'["client"] # "done"
             /\ pc'["sender"] # "done"]_vars

\* a malformed message (not JSON, or JSON without a 'type' field) reaches the
\* client reader in this step
MalformedArrives ==
    \E m \in {BadJson, NoType} :
        handle_client_messages(m) \/ api_handle_client_messages(m)

\* C15: when a malformed client message arrives while the session is active,
\* it is dropped: the client reader goes on to read the next message, the
\* session-active flag stays set and the status stays active.
C15_MalformedMessageIsDropped ==
    [][(is_session_active /\ interview.status = "active" /\ MalformedArrives)
          => /\ pc'["client"] = "recv"
             /\ is_session_active'
             /\ interview'.status = "active"]_vars

\* a text_input message with text t reaches the client reader in this step and
\* no upstream send raises
TextArrives(t) ==
    /\ handle_client_messages(TextMsg(t)) \/ api_handle_client_messages(TextMsg(t))
    /\ envBudget - envBudget' = 1

\* the client reader comes back from recording a typed text in this step
TextRecorded ==
    /\ pc["client"] \in {"after_text", "saving"}
    /\ pc'["client"] = "recv"
    /\ pc["client"] = "saving" => saveLocal["client"].text = clientMsg.text

\* C16: a text_input message received while the session is active is handed
\* to the upstream session as text, and when the reader has dealt with it one
\* utterance more is stored, tagged user and carrying that text (none when
\* the text is blank), in each of the three handlers.
C16_TextInputForwardedAndRecorded ==
    [][/\ \A t \in InputTexts :
            (is_session_active /\ interview.status = "active" /\ TextArrives(t))
                => upSent' = Append(upSent, [kind |-> "text", data |-> t])
       /\ TextRecorded =>
            IF Strip(clientMsg.text) = "" THEN transcripts_db' = transcripts_db
            ELSE /\ Len(transcripts_db') = Len(transcripts_db) + 1
                 /\ transcripts_db'[Len(transcripts_db')].speaker = "user"
                 /\ Strip(transcripts_db'[Len(transcripts_db')].text)
                        = Strip(clientMsg.text)]_vars

\* the live_transcript messages the client received, in order
LiveTranscripts == SelectSeq(wsOut, LAMBDA m : m.type = "live_transcript")

\* message m announces utterance u: same speaker tag, same text
Announces(m, u) ==
    /\ m.body.speaker = u.speaker
    /\ Strip(m.body.text) = Strip(u.text)

RECURSIVE Embeds(_, _)
\* every message of msgs announces an utterance of its own in utts, in the
\* same order
Embeds(msgs, utts) ==
    IF msgs = <<>> THEN TRUE
    ELSE IF utts = <<>> THEN FALSE
    ELSE IF Announces(Head(msgs), Head(utts)) THEN Embeds(Tail(msgs), Tail(utts))
    ELSE Embeds(msgs, Tail(utts))

\* C17: the live_transcript messages the client received announce, one each
\* and in the order of the sequence numbers, utterances that were recorded
\* for the session with the same speaker tag; no live_transcript is sent for
\* a text that was not recorded.
C17_LiveTranscriptIsRecorded ==
    Embeds(LiveTranscripts, SortBySeq(transcripts_db))

\* the termination sequence of GeminiLiveHandler got as far as the summary
\* and then failed although no websocket send raised: interview.save() raised
FinalSaveRaised ==
    /\ variant = "api"
    /\ interview.summary # ""
    /\ interview.status = "failed"
    /\ wsOpen /\ ~wsRaised

\* C18: in GeminiLiveHandler, when persisting the final session record has
\* failed during the termination sequence and the sequence has run through,
\* the session record in memory has left status active and the client was
\* sent interview_ended.
C18_SaveFailureStillNotifies ==
    (FinalSaveRaised /\ EndFinished)
        => /\ interview.status \in {"completed", "failed"}
           /\ CountType("interview_ended") >= 1

RECURSIVE Flatten(_)
\* the bytes of a sequence of byte strings, in order
Flatten(seqs) ==
    IF seqs = <<>> THEN <<>>
    ELSE Flatten(SubSeq(seqs, 1, Len(seqs) - 1)) \o seqs[Len(seqs)]

IsPrefix(a, b) == Len(a) <= Len(b) /\ SubSeq(b, 1, Len(a)) = a

\* C19: in FixedGeminiLiveHandler the payloads handed to the upstream send,
\* followed by the frames still pending, are exactly the accepted frames in
\* arrival order, so the payloads handed on are a prefix of the accepted
\* frames; and a flush hands on all pending frames as one payload and
\* empties the pending list in the same step, also when the send raises.
C19_FlushKeepsArrivalOrder ==
    /\ [](variant = "fixed" =>
             /\ Flatten(hist.handed) \o Flatten(pending_audio_chunks)
                    = Flatten(hist.accepted)
             /\ IsPrefix(Flatten(hist.handed), Flatten(hist.accepted)))
    /\ [][(variant = "fixed" /\ hist'.handed # hist.handed) =>
             /\ hist'.handed = Append(hist.handed, Flatten(pending_audio_chunks))
             /\ pending_audio_chunks' = <<>>
             /\ upSent' # upSent =>
                    upSent' = Append(upSent, [kind |-> "audio",
                                              data |-> Flatten(pending_audio_chunks)])]_vars

\* two different frames were handed on as one payload, and a frame that
\* arrived after that flush is pending
C19_LaterFrameWitness ==
    /\ variant = "fixed"
    /\ \E i \in DOMAIN hist.handed :
          Len(hist.handed[i]) = 2 /\ hist.handed[i][1] # hist.handed[i][2]
    /\ Len(hist.accepted) = 3
    /\ Len(pending_audio_chunks) = 1

\* the sender is running and frames are waiting to be flushed
FramesWaiting ==
    /\ is_session_active
    /\ pc["sender"] = "sleep"
    /\ pending_audio_chunks # <<>>

\* the flush test of the sender as it will come out d clock units from now if
\* no further frame arrives
FlushDueAfter(d) ==
    /\ pending_audio_chunks # <<>>
    /\ last_audio_time # NoTime
    /\ (now + d) - last_audio_time > audio_chunk_timeout

\* C20: while the session is active, frames that are pending are forwarded
\* within a bounded number of sender ticks: if no further frame arrives, the
\* sender's flush test holds at the first tick after the batch flush delay
\* has passed.
C20_PendingFramesAreFlushed ==
    FramesWaiting => FlushDueAfter(audio_chunk_timeout + 1)

\* C21: while the session is active, a frame that is pending is eventually
\* forwarded once frames stop arriving: the sender's flush test comes to hold
\* at some tick before the inactivity threshold has passed, also for a frame
\* that arrived while the sender was awaiting the stream-end send.
C21_PendingFrameIsEventuallyFlushed ==
    FramesWaiting => \E d \in 0..LongWait : FlushDueAfter(d)

\* the fields of the session record that the termination sequence writes
FinalFields(iv) ==
    <<iv.status, iv.ended_at, iv.duration_seconds, iv.full_transcript, iv.summary>>

\* C22: once the status of the session record is completed or failed, none of
\* status, ended_at, duration_seconds, full_transcript and summary changes
\* again.
C22_TerminalRecordIsImmutable ==
    [][interview.status \in {"completed", "failed"}
          => FinalFields(interview') = FinalFields(interview)]_vars

\* C23: the status of a session record is one of active, completed and
\* failed, and it only moves away from active: a record that exists stays in
\* existence, and a status that is completed or failed never becomes active
\* again, in each of the three handlers.
C23_StatusOnlyLeavesActive ==
    /\ [](interview.status \in {"none", "active", "completed", "failed"})
    /\ [][/\ interview.status # "none" => interview'.status # "none"
          /\ interview.status \in {"completed", "failed"}
                => interview'.status \in {"completed", "failed"}]_vars

\* the session failed after its summary was written, and end_interview was
\* invoked again afterwards by the finally block
C23_FailedStaysFailedWitness ==
    /\ interview.status = "failed"
    /\ interview.summary # ""
    /\ "main" \in endCalls
    /\ Cardinality(endCalls) >= 2
    /\ MainOver

\* every step a task of the handler can take without a further client message
\* and without a further upstream event: timers, polls and returning awaits
OwnSteps ==
    \/ ProgramSteps
    \/ client_after_text
    \/ sender_after_end
    \/ audio_streamer
    \/ streamer_after_start

\* C24: in FixedGeminiLiveHandler, once the session-active flag is cleared
\* while start_interview waits in gather, the five session tasks exit on
\* their own: when no task can take a further step without a client message
\* or an upstream event, every one of them has exited (and gather has
\* completed).
C24_ClearedFlagStopsEveryTask ==
    (variant = "fixed" /\ ~is_session_active /\ pc["main"] = "gather"
        /\ ~ENABLED OwnSteps)
        => \A t \in Workers : pc[t] = "done"

\* task c enters the termination sequence of end_interview in this step
EndBegins(c) ==
    /\ endRuns' = endRuns + 1
    /\ pc[c] # "end_interview"
    /\ pc'[c] = "end_interview"

\* C25: in FixedGeminiLiveHandler the termination sequence begins only when
\* every session task other than the one that runs it has exited, whichever
\* trigger starts it (stop request, inactivity, the finally block after
\* gather).
C25_TasksJoinedBeforeFinalizing ==
    [][\A c \in EndCallers :
          (variant = "fixed" /\ EndBegins(c))
              => \A t \in Workers \ {c} : pc[t] = "done"]_vars

\* the utterance counts announced in the interview_ended messages of a
\* termination sequence that ran without error
AnnouncedTotals ==
    {wsOut[i].body.total_transcripts :
        i \in {j \in DOMAIN wsOut : /\ wsOut[j].type = "interview_ended"
                                    /\ ~wsOut[j].body.error}}

\* C26: in FixedGeminiLiveHandler, when the session is completed or failed,
\* full_transcript holds one line for every utterance recorded for the
\* session, in the order of the sequence numbers, and the count announced in
\* interview_ended is the number of recorded utterances.
C26_TranscriptHoldsEveryUtterance ==
    (variant = "fixed" /\ interview.status \in {"completed", "failed"}) =>
        /\ interview.full_transcript = FullTranscript(transcripts_db)
        /\ AnnouncedTotals \subseteq {Len(transcripts_db)}

\* the monitor is no longer polling: it runs end_interview or has exited
MonitorStopped == pc["monitor"] \in {"end_interview", "done"}

\* C27: in the fixed and working handlers a poll of the inactivity monitor
\* signals termination (clears the session-active flag and leaves the polling
\* loop) only when the time since the last recorded activity strictly exceeds
\* conversation_inactive_threshold; a poll at which that time is at most the
\* threshold signals nothing; and a monitor that has signalled never polls
\* again.
C27_MonitorSignalsOnlyPastThreshold ==
    /\ [][monitor_inactivity =>
            /\ (is_session_active /\ ~is_session_active')
                  => /\ last_activity # NoTime
                     /\ now - last_activity > conversation_inactive_threshold
                     /\ MonitorStopped'
            /\ (now - last_activity <= conversation_inactive_threshold)
                  => /\ is_session_active' = is_session_active
                     /\ endCalls' = endCalls
                     /\ interview' = interview]_vars
    /\ [][MonitorStopped => MonitorStopped']_vars

\* the monitor of the fixed handler has signalled and ended the session,
\* after activity had been recorded later than the start of the session
C27_SignalAfterActivityWitness ==
    /\ variant = "fixed"
    /\ endCalls = {"monitor"}
    /\ pc["monitor"] = "done"
    /\ last_activity > 0
    /\ now - last_activity > conversation_inactive_threshold
    /\ interview.status = "completed"

\* some inbound or outbound event of the session has been observed: a frame
\* was accepted, a typed text was forwarded, or an upstream event left an
\* utterance or a message to the client
EventObserved ==
    \/ hist.accepted # <<>>
    \/ upSent # <<>>
    \/ transcripts_db # <<>>
    \/ Len(wsOut) > 1

\* C28: in FixedGeminiLiveHandler the inactivity monitor terminates a session
\* only after the session became active and a first activity was recorded: a
\* poll does not clear the session-active flag of a session in which no
\* inbound or outbound event has been observed yet.
C28_MonitorWaitsForFirstActivity ==
    [][(variant = "fixed" /\ monitor_inactivity
           /\ is_session_active /\ ~is_session_active')
          => /\ interview.status = "active"
             /\ last_activity # NoTime
             /\ EventObserved]_vars

\* the texts handed to the upstream session so far
TextsForwarded == SelectSeq(upSent, LAMBDA u : u.kind = "text")

\* C29: once the session-active flag is cleared, inbound input is no longer
\* accepted: in no later step is a frame appended to the pending list, a
\* typed text handed to the upstream session, or a typed text recorded as an
\* utterance.
C29_NoInputAfterTermination ==
    [][~is_session_active =>
          /\ Len(pending_audio_chunks') <= Len(pending_audio_chunks)
          /\ hist'.accepted = hist.accepted
          /\ TextsForwarded' = TextsForwarded
          /\ client_after_text => transcripts_db' = transcripts_db]_vars

\* the receive loop processes the interruption flag of a response in this step
InterruptProcessed ==
    \/ \E r \in StreamResps :
          /\ handle_gemini_responses(r)
          /\ is_session_active /\ r.sc /\ r.interrupted /\ ~TextPasses(r.it)
    \/ gemini_resume /\ pc["gemini"] = "after_it" /\ resp.interrupted

\* the fragments waiting in the queue
FragmentsQueued(buf) == SelectSeq(buf, LAMBDA it : ~it.end_turn)

\* C30: in FixedGeminiLiveHandler, when the receive loop has processed an
\* Interrupted event, no fragment enqueued before the event is still on its
\* way to the client: none is left in the queue and the streamer holds none
\* that it has dequeued but not yet sent.
C30_InterruptionDiscardsFragments ==
    [][(variant = "fixed" /\ InterruptProcessed)
          => /\ FragmentsQueued(audio_buffer') = <<>>
             /\ audio_item' = NoItem
             /\ pc'["streamer"] # "after_start"]_vars

\* C31: in FixedGeminiLiveHandler the fragments sent to the client under one
\* stream_id all belong to the same AI turn, also when an Interrupted event
\* has drained the queue (a queued turn-complete marker included) while a
\* stream was open.
C31_OneTurnPerStream ==
    variant = "fixed" =>
        \A i, j \in DOMAIN wsOut :
            (IsChunk(wsOut[i]) /\ IsChunk(wsOut[j])
                /\ wsOut[i].stream_id = wsOut[j].stream_id)
                => wsOut[i].body = wsOut[j].body

\* C32: end_interview never lets an exception out to the task that called
\* it, whichever step of the termination sequence fails: no caller is left
\* with an unhandled exception when its end_interview is over.
C32_EndInterviewNeverRaises ==
    [][\A c \in EndCallers :
          pc[c] = "end_interview" => pc'[c] # "raised"]_vars

\* C33: in FixedGeminiLiveHandler and in GeminiLiveHandler every recorded
\* utterance has a text that is not empty after trimming and a speaker tag
\* user or ai, and only recorded utterances use up sequence numbers.
C33_UtteranceTextIsNotBlank ==
    variant \in {"fixed", "api"} =>
        /\ \A i \in DOMAIN transcripts_db :
              /\ Strip(transcripts_db[i].text) # ""
              /\ transcripts_db[i].speaker \in {"user", "ai"}
        /\ transcript_counter = Len(transcripts_db)

EndingPhraseSeen ==
    /\ variant = "api"
    /\ (pc["gemini"] = "pause" \/ "gemini" \in endCalls)

\* C35: in GeminiLiveHandler, once an AI text with an ending phrase was
\* processed, the response loop takes no further upstream event (it is in the
\* pause, in end_interview, or over), and the termination sequence runs at
\* most once in the session, also when a client stop_interview or the
\* inactivity monitor calls end_interview during the pause.
C35_EndingPhraseEndsTheLoop ==
    /\ [](EndingPhraseSeen =>
             /\ pc["gemini"] \in {"pause", "end_interview", "done"}
             /\ endRuns <= 1
             /\ (pc["gemini"] # "pause" => endRuns = 1))
    /\ [][EndingPhraseSeen =>
             /\ EndingPhraseSeen'
             /\ \A r \in LifeResps : ~api_handle_gemini_responses(r)]_vars

\* after a closing remark the client's stop_interview ran the termination
\* sequence during the pause; the response loop's own call after the pause
\* found the session no longer active and the loop is over
C35_StopDuringPauseWitness ==
    /\ EndingPhraseSeen
    /\ pc["gemini"] = "done"
    /\ {"client", "gemini"} \subseteq endCalls
    /\ endRuns = 1
    /\ endLocal["gemini"] = IdleEnd
    /\ pc["client"] \in {"end_interview", "done"}

\* as above, with the inactivity monitor in place of the client
C35_TimeoutDuringPauseScene ==
    /\ EndingPhraseSeen
    /\ {"monitor", "gemini"} \subseteq endCalls
    /\ pc["gemini"] = "done"
    /\ endRuns = 1

\* the lines of a full transcript made of the utterances db
LinesOf(db) == {<<Upper(db[i].speaker), db[i].text>> : i \in DOMAIN db}

\* C36: with a second session on another connection sharing the stores, the
\* utterances of each session are numbered 0, 1, 2, ... in the order they were
\* recorded, whatever the other session records in between; the
\* full_transcript and the total_transcripts of each session hold only
\* utterances recorded under that session's id; and a step that changes one
\* session's record or counter changes neither of the other's.
C36_SessionsShareStoresOnly ==
    /\ [](\A id \in {OwnId, PeerId} :
             \A i \in DOMAIN RowsOf(transcripts_db, id) :
                 RowsOf(transcripts_db, id)[i].sequence_number = i - 1)
    /\ [](/\ {interview.full_transcript[i] : i \in DOMAIN interview.full_transcript}
                \subseteq LinesOf(RowsOf(transcripts_db, OwnId))
          /\ Len(interview.full_transcript) <= Len(RowsOf(transcripts_db, OwnId))
          /\ \A k \in AnnouncedTotals : k <= Len(RowsOf(transcripts_db, OwnId))
          /\ {peer.full_transcript[i] : i \in DOMAIN peer.full_transcript}
                \subseteq LinesOf(RowsOf(transcripts_db, PeerId))
          /\ peer.total_transcripts <= Len(RowsOf(transcripts_db, PeerId)))
    /\ [][/\ (peer' # peer) =>
                 UNCHANGED <<interview, transcript_counter, is_session_active, wsOut>>
          /\ (interview' # interview \/ transcript_counter' # transcript_counter) =>
                 (peer' = peer)]_vars

\* both sessions recorded utterances into the shared store, the second
\* session's between two of this session's, and both were terminated
C36_BothSessionsEndedWitness ==
    /\ interview.status = "completed"
    /\ peer.status = "completed"
    /\ Len(interview.full_transcript) >= 2
    /\ peer.total_transcripts >= 1
    /\ \E i, j, k \in DOMAIN transcripts_db :
          /\ i < j /\ j < k
          /\ transcripts_db[i].interview_id = OwnId
          /\ transcripts_db[j].interview_id = PeerId
          /\ transcripts_db[k].interview_id = OwnId
    /\ \E c \in EndCallers : pc[c] = "done" /\ c \in endCalls /\ AnnouncedTotals # {}

\* C37: in FixedGeminiLiveHandler interview_ended is the last message of the
\* session: no live_transcript, audio_stream_start, audio_chunk_response or
\* audio_stream_end is delivered to the client after an interview_ended,
\* however end_interview interleaves with the upstream receive loop and the
\* audio streamer.
C37_InterviewEndedIsLast ==
    variant = "fixed" =>
        \A i, j \in DOMAIN wsOut :
            (i < j /\ wsOut[i].type = "interview_ended")
                => wsOut[j].type \notin {"live_transcript", "audio_stream_start",
                                         "audio_chunk_response", "audio_stream_end"}

\* the payloads of the audio_chunk_response messages the client received, in order
Delivered ==
    [i \in 1..Len(SelectSeq(wsOut, IsChunk)) |-> SelectSeq(wsOut, IsChunk)[i].body]

\* the payloads of the fragments on their way to the client, oldest first:
\* delivered, then held by the streamer, then waiting in the queue
Pipeline ==
    Delivered
    \o (IF audio_item # NoItem THEN <<audio_item.data>> ELSE <<>>)
    \o [i \in 1..Len(FragmentsQueued(audio_buffer)) |->
            FragmentsQueued(audio_buffer)[i].data]

\* the step processes an Interrupted event
InterruptionStep == \E r \in TurnResps : r.interrupted /\ handle_gemini_responses(r)

\* C38: in FixedGeminiLiveHandler, in every step that is not the processing
\* of an interruption, the fragments delivered, held and queued keep their
\* order and only grow at the end, and the delivered ones only by the oldest
\* undelivered one, so fragments reach the client in the order they were
\* enqueued and each at most once; and when the streamer acts on a
\* turn-complete marker (it sends audio_stream_end) the marker was the oldest
\* item of the queue and no fragment enqueued before it is undelivered.
C38_FragmentsKeepQueueOrder ==
    /\ [][~InterruptionStep =>
             /\ IsPrefix(Pipeline, Pipeline')
             /\ IsPrefix(Delivered, Delivered')
             /\ Len(Delivered') <= Len(Delivered) + 1
             /\ Len(Delivered') <= Len(Pipeline)]_vars
    /\ [][CountType("audio_stream_end")' > CountType("audio_stream_end") =>
             /\ audio_buffer # <<>>
             /\ Head(audio_buffer) = EndTurn
             /\ audio_item = NoItem
             /\ Len(Pipeline) = Len(Delivered) + Len(FragmentsQueued(Tail(audio_buffer)))]_vars

\* two turns arrived and nothing else: the client received the fragment of
\* the first turn, then that of the second, and both markers were acted on
C38_TwoTurnsDeliveredWitness ==
    /\ Delivered = <<7, 8>>
    /\ CountType("audio_stream_end") = 2
    /\ envBudget = TurnEvents - 2
    /\ audio_buffer = <<>>

\* C39: in FixedGeminiLiveHandler, in every reachable state, a non-empty
\* pending list implies that last_audio_time is set, however the client
\* reader's appends interleave with the sender's flushes and with its reset
\* of the marker after a silence-triggered stream-end.
C39_PendingImpliesMarkerSet ==
    (variant = "fixed" /\ Len(pending_audio_chunks) > 0) => last_audio_time # NoTime

====
